---------------------------- MODULE Spec2Model ----------------------------
(***************************************************************************)
(* DateAxis (src/src/.internal/charts/axes/DateAxis.ts): the interval      *)
(* selector, the base-granularity inferencer, the per-series minimum-gap   *)
(* accumulators, the zoom coordinator's grid interval, the break collapser *)
(* and the grid-date walker.                                               *)
(*                                                                         *)
(* Time.  Timestamps and durations are whole milliseconds, as Date.getTime *)
(* gives them.  The catalog spans 1 ms .. 100000 years (3.15e15 ms), which *)
(* a JavaScript number holds exactly and a 32-bit integer does not, so a   *)
(* number of milliseconds n is written as the pair <<h, l>> with           *)
(* n = h * Base + l and 0 <= l < Base.  Base is the number of milliseconds *)
(* in an hour, so <<23, 0>> reads "23 hours".                              *)
(***************************************************************************)
EXTENDS Integers, Sequences, FiniteSets, TLC

VARIABLES
    gridIntervals,      \* DateAxis.gridIntervals: the catalog (a List of interval objects)
    _baseInterval,      \* DateAxis._baseInterval: the interval set by the user, or NoInterval
    _baseIntervalReal,  \* DateAxis._baseIntervalReal: the interval inferred from the data
    _gridInterval,      \* DateAxis._gridInterval
    _gridDate,          \* DateAxis._gridDate
    _nextGridUnit,      \* DateAxis._nextGridUnit
    zoom,               \* the zoomed span and grid count calculateZoom last worked on
    axisBreaks,         \* DateAxis.axisBreaks: the list of breaks
    axisDataItems,      \* the data items (ticks) of the axis appended by its last validation
    min,                \* the least value of the axis, NotANumber while it has none
    max,                \* the greatest value of the axis
    start,              \* the zoom: the relative start and end of the visible
    end,                \*   range, fractions <<num, den>>
    skipEmptyPeriods,   \* property skipEmptyPeriods
    markUnitChange,     \* property markUnitChange
    _minDifference,     \* DateAxis._minDifference: series uid -> accumulator
    _prevSeriesTime,    \* DateAxis._prevSeriesTime
    dataItems,          \* per series: the timestamps of its data items processed so far
    dataItemsByAxis,    \* per series: series.dataItemsByAxis[axis.uid], the keys it holds
    seriesBaseInterval, \* per series: series._baseInterval[axis.uid]
    startIndex,         \* per series: series.startIndex, NoCount until the axis sets it
    endIndex,           \* per series: series.endIndex
    call,               \* a direct call of chooseInterval: its arguments and its run
    lastCall            \* the handler that ran last

\* What the axis is given from outside: its range, its zoom, its properties
givenVars == <<min, max, start, end, skipEmptyPeriods, markUnitChange>>

\* What a series keeps for the axis: the keys of its data items, and the
\* range of its data items inside the zoom
keyVars == <<dataItemsByAxis, seriesBaseInterval>>

rangeVars == <<startIndex, endIndex>>

indexVars == <<keyVars, rangeVars>>

\* What the validation of the axis elements leaves behind
gridVars == <<_gridDate, _nextGridUnit, axisDataItems>>

vars == <<gridIntervals, _baseInterval, _baseIntervalReal, _gridInterval, zoom, axisBreaks,
          _minDifference, _prevSeriesTime, dataItems, call, lastCall,
          givenVars, indexVars, gridVars>>

----------------------------------------------------------------------------
(* Numbers of milliseconds as <<hours, milliseconds within the hour>>.     *)

Base == 3600 * 1000

Zero == <<0, 0>>

One == <<0, 1>>

Ms(n) == <<n \div Base, n % Base>>

Hours(h) == <<h, 0>>

Days(d) == <<24 * d, 0>>

Add(a, b) == <<a[1] + b[1] + ((a[2] + b[2]) \div Base), (a[2] + b[2]) % Base>>

\* a - b, for a >= b
Sub(a, b) ==
    IF a[2] >= b[2] THEN <<a[1] - b[1], a[2] - b[2]>>
    ELSE <<a[1] - b[1] - 1, a[2] + Base - b[2]>>

Lt(a, b) == a[1] < b[1] \/ (a[1] = b[1] /\ a[2] < b[2])

Le(a, b) == a[1] < b[1] \/ (a[1] = b[1] /\ a[2] <= b[2])

\* a * k for a small natural k
Times(a, k) == <<a[1] * k + ((a[2] * k) \div Base), (a[2] * k) % Base>>

\* a = q * d + r with 0 <= r < d, for a divisor d below an hour: long division
\* of the hours, then of the milliseconds in the digits 36 * 100 * 100 * 10,
\* so that no intermediate product leaves 32 bits
DivModSmall(a, d) ==
    LET q1 == a[1] \div d[2]
        r1 == a[1] % d[2]
        x2 == r1 * (Base \div 100000) + (a[2] \div 100000)
        q2 == x2 \div d[2]
        r2 == x2 % d[2]
        x3 == r2 * 100 + ((a[2] \div 1000) % 100)
        q3 == x3 \div d[2]
        r3 == x3 % d[2]
        x4 == r3 * 100 + ((a[2] \div 10) % 100)
        q4 == x4 \div d[2]
        r4 == x4 % d[2]
        x5 == r4 * 10 + (a[2] % 10)
        q5 == x5 \div d[2]
        r5 == x5 % d[2]
    IN  [q |-> <<q1, q2 * 100000 + q3 * 1000 + q4 * 10 + q5>>, r |-> <<0, r5>>]

\* the same for a divisor d of whole hours
DivModHours(a, d) == [q |-> Ms(a[1] \div d[1]), r |-> <<a[1] % d[1], a[2]>>]

\* a = q * d + r with 0 <= r < d, for the divisors the axis divides by: the
\* duration of a unit times a count, which is below an hour or whole hours
DivMod(a, d) ==
    CASE d[1] = 0 /\ d[2] > 0 -> DivModSmall(a, d)
      [] d[1] > 0 /\ d[2] = 0 -> DivModHours(a, d)

\* Math.ceil(a / d)
Ceil(a, d) ==
    LET h == DivMod(a, d)
    IN  IF h.r = Zero THEN h.q ELSE Add(h.q, One)

\* Number.MAX_VALUE, above every number of milliseconds the model forms, and
\* the value of a field never assigned (undefined; NaN in arithmetic), which
\* no comparison holds of
MAX_VALUE == <<2147483647, 0>>

NotANumber == <<0 - 1, 0>>

\* a > b as JavaScript compares: false when either side is not a number
Gt(a, b) == a # NotANumber /\ b # NotANumber /\ Lt(b, a)

\* n <= g for a number of milliseconds (or a count) n and an integer g
LeInt(n, g) == g >= 0 /\ Le(n, Ms(g))

----------------------------------------------------------------------------
(* Time units and the interval catalog.                                    *)

TimeUnits == {"millisecond", "second", "minute", "hour", "day", "week", "month", "year"}

\* core/utils/Time.ts timeUnitDurations: a month is 30 days, a year 365 days
timeUnitDurations ==
    [u \in TimeUnits |->
        CASE u = "millisecond" -> Ms(1)
          [] u = "second"      -> Ms(1000)
          [] u = "minute"      -> Ms(60000)
          [] u = "hour"        -> Hours(1)
          [] u = "day"         -> Days(1)
          [] u = "week"        -> Days(7)
          [] u = "month"       -> Days(30)
          [] u = "year"        -> Days(365)]

\* $time.getDuration(unit, count)
getDuration(unit, count) == Times(timeUnitDurations[unit], count)

\* An interval object.  obj tells which object it is: 0 for an object of its
\* own (a literal, or a copy made with the spread { ...x }), k > 0 for the
\* k-th object of the catalog itself.
Interval(unit, count) == [timeUnit |-> unit, count |-> count, obj |-> 0]

\* DateAxis constructor: this.gridIntervals.pushAll([...])
DefaultGridIntervals ==
    << Interval("millisecond", 1), Interval("millisecond", 5), Interval("millisecond", 10),
       Interval("millisecond", 50), Interval("millisecond", 100), Interval("millisecond", 500),
       Interval("second", 1), Interval("second", 5), Interval("second", 10), Interval("second", 30),
       Interval("minute", 1), Interval("minute", 5), Interval("minute", 10),
       Interval("minute", 15), Interval("minute", 30),
       Interval("hour", 1), Interval("hour", 3), Interval("hour", 6), Interval("hour", 12),
       Interval("day", 1), Interval("day", 2), Interval("day", 3), Interval("day", 4), Interval("day", 5),
       Interval("week", 1),
       Interval("month", 1), Interval("month", 2), Interval("month", 3), Interval("month", 6),
       Interval("year", 1), Interval("year", 2), Interval("year", 5), Interval("year", 10),
       Interval("year", 50), Interval("year", 100), Interval("year", 200), Interval("year", 500),
       Interval("year", 1000), Interval("year", 2000), Interval("year", 5000),
       Interval("year", 10000), Interval("year", 100000) >>

\* List.getIndex(index) on the catalog: the object itself (indices from 0)
getIndex(index) == [gridIntervals[index + 1] EXCEPT !.obj = index + 1]

\* returns the object itself where the code makes a copy
SpreadSameObject(object) == object

\* { ...object }: a new object with the same timeUnit and count
Spread(object) == [object EXCEPT !.obj = 0]

\* A count that is not a number (the field is missing)
NoCount == 0 - 1

\* No interval object: the value of a field that is undefined
NoInterval == [timeUnit |-> "undefined", count |-> 0, obj |-> 0]

----------------------------------------------------------------------------
(* Calendar arithmetic (core/utils/Time.ts), in UTC.  The calendar is that  *)
(* of 1970 and 1971, years of 365 days; day 0 is Thursday, 1 January 1970. *)

NoUnit == "undefined"

\* The days of a year before each of its months
MonthStarts == <<0, 31, 59, 90, 120, 151, 181, 212, 243, 273, 304, 334>>

DaysOfYear == 365

\* The day (from 0) a timestamp lies in, and the time since its midnight
DayOf(t) == t[1] \div 24

TimeOfDay(t) == <<t[1] % 24, t[2]>>

\* Date.getUTCMonth() (from 0) of a day
MonthOf(day) == Cardinality({m \in 1 .. 12 : MonthStarts[m] <= day % DaysOfYear}) - 1

\* The first day of month m (from 0, and past 11 into the next years) of
\* the year y (from 0)
MonthStart(y, m) == (y + (m \div 12)) * DaysOfYear + MonthStarts[(m % 12) + 1]

\* $time.round(date, unit, count, firstDateOfWeek = 1, utc): the start of
\* the period of count units the date lies in; the days of a month are
\* counted from 1, weeks start on Monday
round(t, unit, count) ==
    IF t = NotANumber THEN NotANumber
    ELSE CASE unit = "millisecond" ->
                <<t[1], t[2] - ((t[2] % 1000) % count)>>
           [] unit = "second" ->
                <<t[1], t[2] - (t[2] % 60000) + ((((t[2] \div 1000) % 60) \div count) * count) * 1000>>
           [] unit = "minute" ->
                <<t[1], (((t[2] \div 60000) \div count) * count) * 60000>>
           [] unit = "hour" ->
                <<t[1] - (t[1] % 24) + (((t[1] % 24) \div count) * count), 0>>
           [] unit = "day" ->
                LET first == MonthStart(DayOf(t) \div DaysOfYear, MonthOf(DayOf(t)))
                    date == DayOf(t) - first + 1
                IN  Days(first + ((date \div count) * count) - 1)
           [] unit = "week" ->
                Days(DayOf(t) - ((DayOf(t) + 3) % 7))
           [] unit = "month" ->
                Days(MonthStart(DayOf(t) \div DaysOfYear, (MonthOf(DayOf(t)) \div count) * count))
           [] unit = "year" ->
                Days(((((1970 + (DayOf(t) \div DaysOfYear)) \div count) * count) - 1970) * DaysOfYear)

\* $time.add(date, unit, count, utc): count may be negative; a month or a
\* year later (earlier) is the same day and time of that month or year
add(t, unit, count) ==
    IF t = NotANumber THEN NotANumber
    ELSE CASE unit \in {"millisecond", "second", "minute", "hour", "day", "week"} ->
                IF count >= 0 THEN Add(t, getDuration(unit, count))
                ELSE Sub(t, getDuration(unit, 0 - count))
           [] unit = "month" ->
                LET y == DayOf(t) \div DaysOfYear
                    m == MonthOf(DayOf(t))
                IN  Add(Days(MonthStart(y + ((m + count) \div 12), (m + count) % 12)),
                        Sub(t, Days(MonthStart(y, m))))
           [] unit = "year" ->
                Add(t, Days(count * DaysOfYear))

\* $time.getNextUnit(unit)
getNextUnit(unit) ==
    CASE unit = "millisecond" -> "second"
      [] unit = "second"      -> "minute"
      [] unit = "minute"      -> "hour"
      [] unit = "hour"        -> "day"
      [] unit = "day"         -> "month"
      [] unit = "week"        -> "month"
      [] unit = "month"       -> "year"
      [] OTHER                -> NoUnit

\* $time.checkChange(dateOne, dateTwo, unit, utc): the two dates differ at
\* the unit, or at a coarser one
checkChange(dateOne, dateTwo, unit) ==
    /\ unit # NoUnit
    /\ round(dateOne, unit, 1) # round(dateTwo, unit, 1)

----------------------------------------------------------------------------
(* DateAxis.chooseInterval.  The run carries the number of calls made.     *)

\* chooseInterval with its three decisions open to change: the entry at
\* which the search ends unconditionally, the step back to the finer entry,
\* and the number of steps accepted.
RECURSIVE chooseIntervalVariant(_, _, _, _, _, _, _)
chooseIntervalVariant(index, duration, gridCount, calls, stopIndex, stepBack, slack) ==
    LET candidate == getIndex(index)
        intervalDuration == getDuration(candidate.timeUnit, candidate.count)
        count == Ceil(duration, intervalDuration)
    IN  IF index >= stopIndex
        THEN [interval |-> Spread(getIndex(Len(gridIntervals) - 1)), calls |-> calls]
        ELSE IF stepBack /\ Lt(duration, intervalDuration) /\ index > 0
        THEN [interval |-> Spread(getIndex(index - 1)), calls |-> calls]
        ELSE IF LeInt(count, gridCount + slack)
        THEN [interval |-> Spread(getIndex(index)), calls |-> calls]
        ELSE IF index + 1 < Len(gridIntervals)
        THEN chooseIntervalVariant(index + 1, duration, gridCount, calls + 1,
                                   stopIndex, stepBack, slack)
        ELSE [interval |-> Spread(getIndex(index)), calls |-> calls]

\* accepts one step more than gridCount
chooseIntervalRunOneMore(index, duration, gridCount, calls) ==
    chooseIntervalVariant(index, duration, gridCount, calls, Len(gridIntervals) - 1, TRUE, 1)

\* never steps back to the finer entry
chooseIntervalRunNoStepBack(index, duration, gridCount, calls) ==
    chooseIntervalVariant(index, duration, gridCount, calls, Len(gridIntervals) - 1, FALSE, 0)

\* tests the last entry like any other
chooseIntervalRunLastTested(index, duration, gridCount, calls) ==
    chooseIntervalVariant(index, duration, gridCount, calls, Len(gridIntervals), TRUE, 0)

\* steps back to the first entry of the catalog
RECURSIVE chooseIntervalRunBackToFirst(_, _, _, _)
chooseIntervalRunBackToFirst(index, duration, gridCount, calls) ==
    LET candidate == getIndex(index)
        intervalDuration == getDuration(candidate.timeUnit, candidate.count)
        lastIndex == Len(gridIntervals) - 1
        count == Ceil(duration, intervalDuration)
    IN  IF index >= lastIndex
        THEN [interval |-> Spread(getIndex(lastIndex)), calls |-> calls]
        ELSE IF Lt(duration, intervalDuration) /\ index > 0
        THEN [interval |-> Spread(getIndex(0)), calls |-> calls]
        ELSE IF LeInt(count, gridCount)
        THEN [interval |-> Spread(getIndex(index)), calls |-> calls]
        ELSE IF index + 1 < Len(gridIntervals)
        THEN chooseIntervalRunBackToFirst(index + 1, duration, gridCount, calls + 1)
        ELSE [interval |-> Spread(getIndex(index)), calls |-> calls]

RECURSIVE chooseIntervalRun(_, _, _, _)
chooseIntervalRun(index, duration, gridCount, calls) ==
    LET candidate == getIndex(index)
        intervalDuration == getDuration(candidate.timeUnit, candidate.count)
        lastIndex == Len(gridIntervals) - 1
        count == Ceil(duration, intervalDuration)
    IN  IF index >= lastIndex
        THEN [interval |-> Spread(getIndex(lastIndex)), calls |-> calls]
        ELSE IF Lt(duration, intervalDuration) /\ index > 0
        THEN [interval |-> Spread(getIndex(index - 1)), calls |-> calls]
        ELSE IF LeInt(count, gridCount)
        THEN [interval |-> Spread(getIndex(index)), calls |-> calls]
        ELSE IF index + 1 < Len(gridIntervals)
        THEN chooseIntervalRun(index + 1, duration, gridCount, calls + 1)
        ELSE [interval |-> Spread(getIndex(index)), calls |-> calls]

chooseInterval(index, duration, gridCount) ==
    chooseIntervalRun(index, duration, gridCount, 1).interval

----------------------------------------------------------------------------
(* The base interval and the minimum difference of the series.             *)

Series == {1, 2}

\* returns the inferred interval even when the user set one
baseIntervalInferredFirst ==
    IF _baseIntervalReal # NoInterval THEN _baseIntervalReal ELSE _baseInterval

\* get baseInterval()
baseInterval ==
    IF _baseInterval # NoInterval THEN _baseInterval ELSE _baseIntervalReal

\* get baseDuration()
baseDuration == getDuration(baseInterval.timeUnit, baseInterval.count)

\* get minDifference(): the least accumulator of the attached series, a day
\* when that is MAX_VALUE or 0
minDifference ==
    LET numbers == {_minDifference[s] : s \in Series} \ {NotANumber}
        least == CHOOSE m \in numbers \cup {MAX_VALUE} :
                     \A n \in numbers \cup {MAX_VALUE} : Le(m, n)
    IN  IF least = MAX_VALUE \/ least = Zero THEN getDuration("day", 1) ELSE least

\* $time.getDuration("day", 1.01): a day and 864000 ms
DayAndOneHundredth == Add(Days(1), Ms(864000))

\* The promotions of updateAxisBySeries with the short-month and the
\* daylight-saving thresholds open to change
promoteVariant(chosen, gap, shortMonth, shortDay) ==
    LET b1 == IF Le(shortMonth, gap) /\ chosen.timeUnit = "week"
              THEN [chosen EXCEPT !.timeUnit = "month", !.count = 1] ELSE chosen
        m1 == IF Le(getDuration("day", 29 * 2), gap) /\ b1.count = 1
              THEN [b1 EXCEPT !.count = 2] ELSE b1
        m2 == IF Le(getDuration("day", 29 * 3), gap) /\ m1.count = 2
              THEN [m1 EXCEPT !.count = 3] ELSE m1
        m3 == IF Le(getDuration("day", 29 * 6), gap) /\ m2.count = 5
              THEN [m2 EXCEPT !.count = 6] ELSE m2
        b2 == IF b1.timeUnit = "month" THEN m3 ELSE b1
        b3 == IF Le(shortDay, gap) /\ b2.timeUnit = "hour"
              THEN [b2 EXCEPT !.timeUnit = "day", !.count = 1] ELSE b2
        b4 == IF Le(Sub(getDuration("week", 1), getDuration("hour", 1)), gap)
                 /\ b3.timeUnit = "day"
              THEN [b3 EXCEPT !.timeUnit = "week", !.count = 1] ELSE b3
        b5 == IF Le(Sub(getDuration("year", 1), DayAndOneHundredth), gap)
                 /\ b4.timeUnit = "month"
              THEN [b4 EXCEPT !.timeUnit = "year", !.count = 1] ELSE b4
    IN  b5

\* promotes a week to a month only from 30 days on
promoteLongMonth(chosen, gap) == promoteVariant(chosen, gap, Days(30), Hours(23))

\* promotes hours to a day only from 24 hours on
promoteFullDay(chosen, gap) == promoteVariant(chosen, gap, Days(27), Hours(24))

\* updateAxisBySeries: what the assignments to baseInterval.timeUnit and
\* baseInterval.count make of the interval the selector returned, for the
\* minimum difference gap
promote(chosen, gap) ==
    LET b1 == IF Le(getDuration("day", 27), gap) /\ chosen.timeUnit = "week"
              THEN [chosen EXCEPT !.timeUnit = "month", !.count = 1] ELSE chosen
        m1 == IF Le(getDuration("day", 29 * 2), gap) /\ b1.count = 1
              THEN [b1 EXCEPT !.count = 2] ELSE b1
        m2 == IF Le(getDuration("day", 29 * 3), gap) /\ m1.count = 2
              THEN [m1 EXCEPT !.count = 3] ELSE m1
        m3 == IF Le(getDuration("day", 29 * 6), gap) /\ m2.count = 5
              THEN [m2 EXCEPT !.count = 6] ELSE m2
        b2 == IF b1.timeUnit = "month" THEN m3 ELSE b1
        b3 == IF Le(getDuration("hour", 23), gap) /\ b2.timeUnit = "hour"
              THEN [b2 EXCEPT !.timeUnit = "day", !.count = 1] ELSE b2
        b4 == IF Le(Sub(getDuration("week", 1), getDuration("hour", 1)), gap)
                 /\ b3.timeUnit = "day"
              THEN [b3 EXCEPT !.timeUnit = "week", !.count = 1] ELSE b3
        b5 == IF Le(Sub(getDuration("year", 1), DayAndOneHundredth), gap)
                 /\ b4.timeUnit = "month"
              THEN [b4 EXCEPT !.timeUnit = "year", !.count = 1] ELSE b4
    IN  b5

\* calculateZoom without the clamp to the base interval
zoomGridIntervalUnclamped(difference, gridCount) == chooseInterval(0, difference, gridCount)

\* calculateZoom: the grid interval for the zoomed span, not finer than the
\* base interval
zoomGridInterval(difference, gridCount) ==
    LET chosen == chooseInterval(0, difference, gridCount)
    IN  IF Lt(getDuration(chosen.timeUnit, chosen.count), baseDuration)
        THEN Spread(baseInterval) ELSE chosen

----------------------------------------------------------------------------
(* The range of the axis and its breaks (ValueAxis, ValueAxisBreak).       *)

\* Math.max and Math.min: not a number when either argument is none
MathMax(a, b) ==
    IF a = NotANumber \/ b = NotANumber THEN NotANumber ELSE IF Lt(a, b) THEN b ELSE a

MathMin(a, b) ==
    IF a = NotANumber \/ b = NotANumber THEN NotANumber ELSE IF Lt(a, b) THEN a ELSE b

\* part hundredths of the duration a, rounded down
Hundredths(a, part) == DivModSmall(Times(a, part), Ms(100)).q

\* A break from startDate to endDate (NotANumber while it is open) that
\* keeps breakSize hundredths of its width
AxisBreak(startDate, endDate, breakSize) ==
    [startDate |-> startDate, endDate |-> endDate, breakSize |-> breakSize,
     gridInterval |-> NoInterval, gridDate |-> NotANumber]

\* axisBreak.adjustedStartValue, adjustedEndValue: the break cut to the range
adjustedStartValue(axisBreak) == MathMax(axisBreak.startDate, min)

adjustedEndValue(axisBreak) == MathMin(axisBreak.endDate, max)

\* isInBreak(value): the first break (from 1) the value lies in, 0 for none
isInBreak(value) ==
    LET inside == {i \in 1 .. Len(axisBreaks) :
                      /\ value # NotANumber
                      /\ adjustedStartValue(axisBreaks[i]) # NotANumber
                      /\ adjustedEndValue(axisBreaks[i]) # NotANumber
                      /\ Le(adjustedStartValue(axisBreaks[i]), value)
                      /\ Le(value, adjustedEndValue(axisBreaks[i]))}
    IN  IF inside = {} THEN 0 ELSE CHOOSE i \in inside : \A j \in inside : i <= j

\* adjustDifference(from, to) from break i on, with the breaks before it
\* taken off already
RECURSIVE adjustDifferenceFrom(_, _, _, _)
adjustDifferenceFrom(i, from, to, difference) ==
    IF i > Len(axisBreaks) THEN difference
    ELSE LET startValue == adjustedStartValue(axisBreaks[i])
             endValue == adjustedEndValue(axisBreaks[i])
             first == MathMax(startValue, from)
             last == MathMin(endValue, to)
         IN  IF startValue = NotANumber \/ endValue = NotANumber
             THEN adjustDifferenceFrom(i + 1, from, to, difference)
             ELSE IF Lt(to, startValue) THEN difference
             ELSE IF Le(from, endValue) /\ Le(first, last)
             THEN adjustDifferenceFrom(i + 1, from, to,
                      Sub(difference, Hundredths(Sub(last, first), 100 - axisBreaks[i].breakSize)))
             ELSE adjustDifferenceFrom(i + 1, from, to, difference)

\* adjustDifference(from, to): to - from less what the breaks between them
\* take off
adjustDifference(from, to) ==
    IF from = NotANumber \/ to = NotANumber THEN NotANumber
    ELSE adjustDifferenceFrom(1, from, to, Sub(to, from))

\* this._difference
_difference == adjustDifference(min, max)

\* positionToValue(position) from break i on: the value that lies the
\* duration left, as the axis shows durations, past the value from
RECURSIVE positionToValueFrom(_, _, _)
positionToValueFrom(i, from, left) ==
    IF i > Len(axisBreaks) THEN Add(from, left)
    ELSE LET startValue == adjustedStartValue(axisBreaks[i])
             endValue == adjustedEndValue(axisBreaks[i])
             breakSize == axisBreaks[i].breakSize
             shown == Hundredths(Sub(endValue, startValue), breakSize)
         IN  IF startValue = NotANumber \/ endValue = NotANumber
             THEN positionToValueFrom(i + 1, from, left)
             ELSE IF Lt(endValue, startValue) \/ Lt(startValue, from)
             THEN positionToValueFrom(i + 1, from, left)
             ELSE IF Le(left, Sub(startValue, from)) THEN Add(from, left)
             ELSE IF Le(Sub(left, Sub(startValue, from)), shown) /\ breakSize > 0
             THEN Add(startValue,
                      DivModSmall(Times(Sub(left, Sub(startValue, from)), 100), Ms(breakSize)).q)
             ELSE positionToValueFrom(i + 1, endValue,
                      Sub(Sub(left, Sub(startValue, from)), shown))

\* positionToValue(position): the value at a relative position, a fraction
\* of the range as the axis shows it
positionToValue(position) ==
    IF min = NotANumber \/ max = NotANumber THEN NotANumber
    ELSE positionToValueFrom(1, min,
             DivModSmall(Times(_difference, position[1]), Ms(position[2])).q)

\* this._minZoomed and this._maxZoomed
_minZoomed == positionToValue(start)

_maxZoomed == positionToValue(end)

\* A relative position: sign * num / den
RelativePosition(sign, num, den) == [sign |-> sign, num |-> num, den |-> den]

\* valueToPosition(value) from break i on, were the whole of a break taken
\* off the values after it, whatever its breakSize
RECURSIVE valueToPositionFromWhole(_, _, _)
valueToPositionFromWhole(i, value, least) ==
    IF i > Len(axisBreaks) THEN [value |-> value, least |-> least]
    ELSE LET startValue == adjustedStartValue(axisBreaks[i])
             endValue == adjustedEndValue(axisBreaks[i])
             breakSize == axisBreaks[i].breakSize
         IN  IF startValue = NotANumber \/ endValue = NotANumber
             THEN valueToPositionFromWhole(i + 1, value, least)
             ELSE IF Lt(value, startValue) THEN [value |-> value, least |-> least]
             ELSE IF ~ (Le(startValue, max) /\ Le(min, endValue))
             THEN valueToPositionFromWhole(i + 1, value, least)
             ELSE IF Lt(endValue, value)
             THEN valueToPositionFromWhole(i + 1, value,
                      Add(least, Sub(endValue, startValue)))
             ELSE valueToPositionFromWhole(i + 1,
                      Add(startValue, Hundredths(Sub(value, startValue), breakSize)), least)

\* valueToPosition(value) from break i on: the value and the least value as
\* the breaks before i moved them
RECURSIVE valueToPositionFrom(_, _, _)
valueToPositionFrom(i, value, least) ==
    IF i > Len(axisBreaks) THEN [value |-> value, least |-> least]
    ELSE LET startValue == adjustedStartValue(axisBreaks[i])
             endValue == adjustedEndValue(axisBreaks[i])
             breakSize == axisBreaks[i].breakSize
         IN  IF startValue = NotANumber \/ endValue = NotANumber
             THEN valueToPositionFrom(i + 1, value, least)
             ELSE IF Lt(value, startValue) THEN [value |-> value, least |-> least]
             ELSE IF ~ (Le(startValue, max) /\ Le(min, endValue))
             THEN valueToPositionFrom(i + 1, value, least)
             ELSE IF Lt(endValue, value)
             THEN valueToPositionFrom(i + 1, value,
                      Add(least, Hundredths(Sub(endValue, startValue), 100 - breakSize)))
             ELSE valueToPositionFrom(i + 1,
                      Add(startValue, Hundredths(Sub(value, startValue), breakSize)), least)

\* valueToPosition(value): 0 for no value and on an axis without range
valueToPosition(value) ==
    IF value = NotANumber \/ min = NotANumber \/ max = NotANumber
    THEN RelativePosition(1, Zero, One)
    ELSE LET moved == valueToPositionFrom(1, value, min)
         IN  IF Lt(moved.value, moved.least)
             THEN RelativePosition(0 - 1, Sub(moved.least, moved.value), _difference)
             ELSE RelativePosition(1, Sub(moved.value, moved.least), _difference)

\* positionToDate(position), were the value rounded up to the millisecond
\* after it
positionToDateLate(position) ==
    IF positionToValue(position) = NotANumber THEN NotANumber
    ELSE Add(positionToValue(position), One)

\* positionToDate(position): new Date(positionToValue(position)), the time
\* of which is the value cut to whole milliseconds, as positionToValue is
\* here
positionToDate(position) == positionToValue(position)

\* dateToPosition(date): valueToPosition(date.getTime())
dateToPosition(date) == valueToPosition(date)

----------------------------------------------------------------------------
(* The break collapser: the index of the series' data by the cells of the  *)
(* base interval, and the scan for the cells without data.                 *)

\* JSON.stringify of an interval
stringify(interval) == <<interval.timeUnit, interval.count>>

\* series._baseInterval[this.uid] as it reads now: when it is an object of
\* the catalog, what the catalog holds
seriesInterval(series) ==
    IF seriesBaseInterval[series].obj = 0 THEN seriesBaseInterval[series]
    ELSE getIndex(seriesBaseInterval[series].obj - 1)

\* postProcessSeriesDataItem(dataItem), for an item with the date time: the
\* key it is indexed by, the start of its cell of the base interval
postProcessSeriesDataItem(interval, time) == round(time, interval.timeUnit, interval.count)

\* postProcessSeriesDataItems(), its loop over the series: the series whose
\* interval is not the base interval are indexed anew; no key is taken out
reindexed(interval, series) == stringify(seriesInterval(series)) # stringify(interval)

postProcessSeriesDataItems(interval) ==
    [series \in Series |->
        IF reindexed(interval, series)
        THEN dataItemsByAxis[series] \cup
                 {postProcessSeriesDataItem(interval, dataItems[series][i]) :
                      i \in 1 .. Len(dataItems[series])}
        ELSE dataItemsByAxis[series]]

\* The breakSize of the template of the breaks once skipEmptyPeriods is set
TemplateBreakSize == 0

\* addEmptyUnitsBreaks(), its loop from the cell at date on: breaks are
\* the breaks so far, the last of them is still open when open holds, keys
\* are the keys of the series; a break is closed a millisecond before the
\* cell with data, or late, at the end of that cell
RECURSIVE addEmptyUnitsBreaksFrom(_, _, _, _, _, _)
addEmptyUnitsBreaksFrom(interval, keys, date, breaks, open, late) ==
    IF ~ Lt(date, Sub(max, getDuration(interval.timeUnit, interval.count))) THEN breaks
    ELSE LET startTime == add(date, interval.timeUnit, interval.count)
             hasData == \E series \in Series : startTime \in keys[series]
             endDate == IF late THEN add(startTime, interval.timeUnit, interval.count)
                        ELSE Sub(startTime, One)
         IN  IF ~ hasData
             THEN IF ~ open
                  THEN addEmptyUnitsBreaksFrom(interval, keys, startTime,
                           Append(breaks, AxisBreak(startTime, NotANumber, TemplateBreakSize)),
                           TRUE, late)
                  ELSE addEmptyUnitsBreaksFrom(interval, keys, startTime, breaks, TRUE, late)
             ELSE IF open
                  THEN addEmptyUnitsBreaksFrom(interval, keys, startTime,
                           [breaks EXCEPT ![Len(breaks)].endDate = endDate], FALSE, late)
                  ELSE addEmptyUnitsBreaksFrom(interval, keys, startTime, breaks, FALSE, late)

\* addEmptyUnitsBreaks() over the breaks kept: the list of breaks it leaves
addEmptyUnitsBreaksOver(interval, keys, kept, late) ==
    IF skipEmptyPeriods /\ min # NotANumber /\ max # NotANumber
    THEN addEmptyUnitsBreaksFrom(interval, keys,
             round(min, interval.timeUnit, interval.count), kept, FALSE, late)
    ELSE axisBreaks

\* ... were the list not cleared first
addEmptyUnitsBreaksUncleared(interval, keys) ==
    addEmptyUnitsBreaksOver(interval, keys, axisBreaks, FALSE)

\* ... were a break closed at the end of the cell with data
addEmptyUnitsBreaksClosedLate(interval, keys) ==
    addEmptyUnitsBreaksOver(interval, keys, << >>, TRUE)

\* addEmptyUnitsBreaks(): the list is cleared, then scanned into
addEmptyUnitsBreaks(interval, keys) == addEmptyUnitsBreaksOver(interval, keys, << >>, FALSE)

----------------------------------------------------------------------------
(* The grid of the axis: the first grid date, the walk over the grid dates *)
(* and the ticks.                                                          *)

\* The number a Num stands for
ToInt(a) == a[1] * Base + a[2]

\* Math.round(a / d)
MathRound(a, d) ==
    LET h == DivMod(a, d)
    IN  IF Le(d, Times(h.r, 2)) THEN Add(h.q, One) ELSE h.q

\* Math.floor(position * count) for a relative position
FloorOf(position, count) == DivModSmall(Times(count, position[1]), Ms(position[2])).q

\* calculateZoom(), the grid date: the start of the grid interval min lies
\* in, moved by the intervals before the zoom and three more back
zoomGridDate(gridInterval) ==
    IF min = NotANumber \/ max = NotANumber THEN NotANumber
    ELSE LET count == Ceil(_difference, getDuration(gridInterval.timeUnit, gridInterval.count))
             before == ToInt(FloorOf(start, count)) - 3
         IN  add(round(min, gridInterval.timeUnit, gridInterval.count), gridInterval.timeUnit,
                 (IF before < 0 - 5 THEN 0 - 5 ELSE before) * gridInterval.count)

\* getGridDate(date, intervalCount) under the grid interval gridInterval;
\* recheck tells whether the date found is counted again
RECURSIVE getGridDateVariant(_, _, _, _)
getGridDateVariant(gridInterval, date, intervalCount, recheck) ==
    LET timeUnit == gridInterval.timeUnit
        realIntervalCount == gridInterval.count
        prevTimestamp == round(date, timeUnit, 1)
        timestamp == add(prevTimestamp, timeUnit, intervalCount)
        axisBreak == isInBreak(timestamp)
        endDate == axisBreaks[axisBreak].endDate
        rounded == round(endDate, timeUnit, realIntervalCount)
        newDate == IF axisBreak # 0 /\ endDate # NotANumber
                   THEN IF Lt(rounded, endDate) THEN add(rounded, timeUnit, realIntervalCount)
                        ELSE rounded
                   ELSE timestamp
        durationBreaksRemoved == adjustDifference(prevTimestamp, newDate)
        countBreaksRemoved == MathRound(durationBreaksRemoved, getDuration(timeUnit, 1))
    IN  IF recheck /\ Lt(countBreaksRemoved, Ms(realIntervalCount))
        THEN getGridDateVariant(gridInterval, prevTimestamp,
                                intervalCount + realIntervalCount, recheck)
        ELSE newDate

\* ... were the first date found returned
getGridDateUnchecked(gridInterval, date, intervalCount) ==
    getGridDateVariant(gridInterval, date, intervalCount, FALSE)

getGridDate(gridInterval, date, intervalCount) ==
    getGridDateVariant(gridInterval, date, intervalCount, TRUE)

\* The index (from 0) of the data item the series keeps under key: the last
\* of its items in that cell, NoCount when it has none there (the keys an
\* earlier base interval left are not followed)
itemAt(series, key) ==
    LET inCell == {i \in 1 .. Len(dataItems[series]) :
                      postProcessSeriesDataItem(baseInterval, dataItems[series][i]) = key}
    IN  IF key \notin dataItemsByAxis[series] \/ inCell = {} THEN NoCount
        ELSE (CHOOSE i \in inCell : \A j \in inCell : j <= i) - 1

\* findFirst(dataItem, time, key) for the item at index: the first of the
\* items before it in a row that are not before time
RECURSIVE findFirst(_, _, _)
findFirst(series, index, time) ==
    IF index > 0
    THEN IF Lt(dataItems[series][index], time) THEN index
         ELSE findFirst(series, index - 1, time)
    ELSE index

\* series.dataItems.findClosestIndex(value, ..., "left"): the first of the
\* items with the greatest time below value, 0 when none is below it
findClosestIndexLeft(series, value) ==
    LET below == {i \in 1 .. Len(dataItems[series]) : Lt(dataItems[series][i], value)}
        closest == {i \in below : \A j \in below : Le(dataItems[series][j], dataItems[series][i])}
    IN  IF below = {} THEN 0
        ELSE (CHOOSE i \in closest : \A j \in closest : i <= j) - 1

\* ... "right": the last of the items with the least time at or above
\* value, the last item when none is
findClosestIndexRight(series, value) ==
    LET above == {i \in 1 .. Len(dataItems[series]) : Le(value, dataItems[series][i])}
        closest == {i \in above : \A j \in above : Le(dataItems[series][i], dataItems[series][j])}
    IN  IF above = {} THEN Len(dataItems[series]) - 1
        ELSE (CHOOSE i \in closest : \A j \in closest : j <= i) - 1

\* calculateZoom(), series.startIndex; closest tells whether the closest
\* item is looked for when no item is kept under the zoomed minimum
seriesStartIndexVariant(series, closest) ==
    LET minZoomed == round(_minZoomed, baseInterval.timeUnit, baseInterval.count)
        startDataItem == itemAt(series, minZoomed)
    IN  IF start[1] = 0 \/ _minZoomed = NotANumber THEN 0
        ELSE IF startDataItem # NoCount THEN findFirst(series, startDataItem, minZoomed)
        ELSE IF closest THEN findClosestIndexLeft(series, _minZoomed)
        ELSE 0

\* ... were the index left at 0 then
seriesStartIndexDefault(series) == seriesStartIndexVariant(series, FALSE)

seriesStartIndex(series) == seriesStartIndexVariant(series, TRUE)

\* calculateZoom(), series.endIndex
seriesEndIndex(series) ==
    LET maxZoomed == add(round(_maxZoomed, baseInterval.timeUnit, baseInterval.count),
                         baseInterval.timeUnit, baseInterval.count)
        endDataItem == itemAt(series, maxZoomed)
    IN  IF end[1] = end[2] \/ _maxZoomed = NotANumber THEN Len(dataItems[series])
        ELSE IF endDataItem # NoCount THEN endDataItem
        ELSE findClosestIndexRight(series, Sub(maxZoomed, One)) + 1

\* The calls of getGridDate that are followed at most
MaxSteps == 12

\* The calls getGridDate(date, intervalCount) makes of itself, each with
\* step more intervals, steps of them made so far
RECURSIVE getGridDateStepsVariant(_, _, _, _, _)
getGridDateStepsVariant(gridInterval, date, intervalCount, step, steps) ==
    LET timeUnit == gridInterval.timeUnit
        realIntervalCount == gridInterval.count
        prevTimestamp == round(date, timeUnit, 1)
        timestamp == add(prevTimestamp, timeUnit, intervalCount)
        axisBreak == isInBreak(timestamp)
        endDate == axisBreaks[axisBreak].endDate
        rounded == round(endDate, timeUnit, realIntervalCount)
        newDate == IF axisBreak # 0 /\ endDate # NotANumber
                   THEN IF Lt(rounded, endDate) THEN add(rounded, timeUnit, realIntervalCount)
                        ELSE rounded
                   ELSE timestamp
        durationBreaksRemoved == adjustDifference(prevTimestamp, newDate)
        countBreaksRemoved == MathRound(durationBreaksRemoved, getDuration(timeUnit, 1))
    IN  IF Lt(countBreaksRemoved, Ms(realIntervalCount)) /\ steps < MaxSteps
        THEN getGridDateStepsVariant(gridInterval, prevTimestamp, intervalCount + step,
                                     step, steps + 1)
        ELSE steps

\* ... were the same number of intervals tried again
getGridDateStepsSame(gridInterval, date, intervalCount) ==
    getGridDateStepsVariant(gridInterval, date, intervalCount, 0, 0)

getGridDateSteps(gridInterval, date, intervalCount) ==
    getGridDateStepsVariant(gridInterval, date, intervalCount, gridInterval.count, 0)

\* The formats of the ticks: dateFormats and periodChangeDateFormats
RegularFormat == "dateFormats"

PeriodChangeFormat == "periodChangeDateFormats"

\* The format of a tick at date after the tick at prevGridDate (NotANumber
\* for none); mark is markUnitChange
tickFormatVariant(timeUnit, nextGridUnit, date, prevGridDate, mark, yearToo) ==
    IF /\ mark
       /\ prevGridDate # NotANumber
       /\ checkChange(date, prevGridDate, nextGridUnit)
       /\ (timeUnit # "year" \/ yearToo)
    THEN PeriodChangeFormat
    ELSE RegularFormat

\* ... were the change not looked at
tickFormatUnmarked(timeUnit, nextGridUnit, date, prevGridDate, mark) ==
    tickFormatVariant(timeUnit, nextGridUnit, date, prevGridDate, FALSE, FALSE)

tickFormat(timeUnit, nextGridUnit, date, prevGridDate, mark) ==
    tickFormatVariant(timeUnit, nextGridUnit, date, prevGridDate, mark, FALSE)

\* validateDataElement(dataItem), on an axis with a range: the position of
\* the data item
validateDataElementUnguarded(dataItem) ==
    [dataItem EXCEPT !.position = valueToPosition(dataItem.date)]

\* validateDataElement(dataItem)
validateDataElement(dataItem) ==
    IF max # NotANumber /\ min # NotANumber THEN validateDataElementUnguarded(dataItem)
    ELSE dataItem

\* A data item of the axis: a tick at date, of the break axisBreak (from
\* 1; 0 for a regular tick), with its text: date in the format of the unit
Tick(date, timeUnit, intervalCount, format, axisBreak) ==
    [date |-> date,
     endDate |-> add(date, timeUnit, intervalCount),
     text |-> [format |-> format, timeUnit |-> timeUnit, date |-> date],
     axisBreak |-> axisBreak,
     position |-> validateDataElement([date |-> date, position |-> RelativePosition(1, Zero, One)]).position]

\* The ticks one validation makes at most
MaxTicks == 16

\* validateAxisElements(), its loop over the regular items: prevGridDate
\* is the grid date before, items are the items appended so far; the loop
\* goes on while the grid date is at most _maxZoomed, or, strict, below it
RECURSIVE regularItemsVariant(_, _, _, _, _)
regularItemsVariant(gridInterval, nextGridUnit, prevGridDate, items, strict) ==
    IF \/ ~ Le(prevGridDate, _maxZoomed)
       \/ (strict /\ prevGridDate = _maxZoomed)
       \/ Len(items) >= MaxTicks
    THEN items
    ELSE LET date == getGridDate(gridInterval, prevGridDate, gridInterval.count)
             format == tickFormat(gridInterval.timeUnit, nextGridUnit, date, prevGridDate,
                                  markUnitChange)
         IN  regularItemsVariant(gridInterval, nextGridUnit, date,
                 Append(items, Tick(date, gridInterval.timeUnit, gridInterval.count, format, 0)),
                 strict)

\* ... were the loop to stop at _maxZoomed
regularItemsStrict(gridInterval, nextGridUnit, prevGridDate, items) ==
    regularItemsVariant(gridInterval, nextGridUnit, prevGridDate, items, TRUE)

regularItems(gridInterval, nextGridUnit, prevGridDate, items) ==
    regularItemsVariant(gridInterval, nextGridUnit, prevGridDate, items, FALSE)

\* axisBreak.adjustedMax
adjustedMax(axisBreak) ==
    IF Lt(adjustedEndValue(axisBreak), adjustedStartValue(axisBreak))
    THEN adjustedStartValue(axisBreak) ELSE adjustedEndValue(axisBreak)

\* ... its loop over the items of break i: count intervals of the break
\* past its grid date, after the item at prevGridDate (NotANumber for none)
RECURSIVE breakItems(_, _, _, _, _)
breakItems(nextGridUnit, i, count, prevGridDate, items) ==
    LET axisBreak == axisBreaks[i]
        timeUnit == axisBreak.gridInterval.timeUnit
        intervalCount == axisBreak.gridInterval.count
        before == IF count = 0 THEN axisBreak.gridDate
                  ELSE add(axisBreak.gridDate, timeUnit, intervalCount * (count - 1))
        date == add(axisBreak.gridDate, timeUnit, intervalCount * count)
        format == tickFormat(timeUnit, nextGridUnit, date, prevGridDate, markUnitChange)
    IN  IF before = NotANumber \/ ~ Le(before, adjustedMax(axisBreak)) \/ Len(items) >= MaxTicks
        THEN items
        ELSE IF Lt(adjustedStartValue(axisBreak), date) /\ Lt(date, adjustedEndValue(axisBreak))
        THEN breakItems(nextGridUnit, i, count + 1, date,
                 Append(items, Tick(date, timeUnit, intervalCount, format, i)))
        ELSE breakItems(nextGridUnit, i, count + 1, prevGridDate, items)

\* ... over the breaks from i on; a tick goes into the breaks of roomy, the
\* breaks that are drawn wide enough
RECURSIVE breaksItems(_, _, _, _)
breaksItems(nextGridUnit, roomy, i, items) ==
    IF i > Len(axisBreaks) THEN items
    ELSE breaksItems(nextGridUnit, roomy, i + 1,
             IF axisBreaks[i].breakSize > 0 /\ i \in roomy
             THEN breakItems(nextGridUnit, i, 0, NotANumber, items)
             ELSE items)

----------------------------------------------------------------------------
(* Bounds and inputs.                                                      *)

MaxGridCount == 3

\* "an axis spanning an hour, and space for 6 grid lines / labels"
HourGridCount == 6

GridCounts == (0 .. MaxGridCount) \cup {HourGridCount}

\* The most data items a series is given between two changes of its data
MaxDataItems == 2

LastDuration == getDuration("year", 100000)

\* The duration of catalog entry j (from 0) of the default catalog
EntryDuration(j) ==
    getDuration(DefaultGridIntervals[j + 1].timeUnit, DefaultGridIntervals[j + 1].count)

\* Spans at the edges of catalog entry j: k steps of it, one millisecond less
\* and one more
EdgeSpans(j) ==
    UNION {{Sub(Times(EntryDuration(j), k), One), Times(EntryDuration(j), k),
            Add(Times(EntryDuration(j), k), One)} :
           k \in IF j = Len(DefaultGridIntervals) - 1 THEN {1} ELSE GridCounts \ {0}}

\* Spans of any size: nothing, a few milliseconds, 23 hours, 29.5 days,
\* 50000 years, and spans past gridCount steps of the coarsest entry
FarSpans ==
    {Zero, Ms(7), Hours(23), Sub(Days(30), Hours(12)), Days(50000 * 365),
     Add(LastDuration, One), Times(LastDuration, 2), Add(Times(LastDuration, 2), One)}

\* The spans tried: those, and the edges of every entry
Spans == FarSpans \cup UNION {EdgeSpans(j) : j \in 0 .. Len(DefaultGridIntervals) - 1}

\* The arguments of a direct call chooseInterval(index, duration, gridCount)
\* that has not run yet
NoRun == [interval |-> NoInterval, calls |-> 0]

NoCall == [index |-> 0 - 1, duration |-> Zero, gridCount |-> 0, run |-> NoRun]

CallInputs ==
    [index : 0 .. Len(DefaultGridIntervals) - 1, duration : Spans,
     gridCount : GridCounts, run : {NoRun}]

\* The timestamps of series data items
SeriesTimes == {Zero, Hours(23), Sub(Days(30), Hours(12))}

\* The minimum differences of the series of an axis with its data loaded
LoadedGaps == {Hours(1), Sub(Days(30), Hours(12))}

\* Minimum differences at the thresholds of updateAxisBySeries, one
\* millisecond under them, between them, and at the edges of every entry
ThresholdGaps ==
    UNION {{Sub(g, One), g} :
           g \in {Hours(23), Days(1), Sub(Days(7), Hours(1)), Days(7), Days(27), Days(30),
                  Days(58), Days(60), Days(87), Days(90), Days(174), Days(180),
                  Sub(Days(365), Add(Days(1), Ms(864000))), Days(365)}}
    \cup {One, Add(Hours(23), Ms(1800000)), Sub(Days(30), Hours(12)), Days(59), Days(89),
          Days(150), Days(177)}

Gaps == ThresholdGaps \cup UNION {{Sub(EntryDuration(j), One), EntryDuration(j),
                                   Add(EntryDuration(j), One)} :
                                  j \in 0 .. Len(DefaultGridIntervals) - 2}

\* The intervals the user sets as base interval; one comes without a count
UserIntervals == {[timeUnit |-> "day", count |-> NoCount, obj |-> 0], Interval("month", 1)}

\* The axis with its data loaded spans a hundred days from the first of
\* February 1971, a Monday
AxisMin == Days(396)

AxisMax == Add(AxisMin, Days(100))

\* A relative position, the fraction num / den
Fraction(num, den) == <<num, den>>

\* The axis breaks of an axis with breaks: two days, and 23 hours, shown a
\* hundredth as wide as they are
AxisBreaks ==
    <<AxisBreak(Add(AxisMin, Days(5)), Add(AxisMin, Days(7)), 1),
      AxisBreak(Add(AxisMin, Days(12)), Add(Add(AxisMin, Days(12)), Hours(23)), 1)>>

\* The zooms of the user: the whole range, and its first hour, which is
\* 100 / 232971 of the 2329.71 hours the axis shows with those breaks
Zooms == {<<Fraction(0, 1), Fraction(1, 1)>>, <<Fraction(0, 1), Fraction(100, 232971)>>}

\* The grid counts of the breaks, one of each break: a break takes the share
\* of the grid count that it takes of the zoomed range, none when outside it
BreakGridCounts == {<<0, MaxGridCount>>, <<MaxGridCount, 1>>}

NoZoom == [difference |-> NotANumber, gridCount |-> 0]


\* The base intervals the user sets on an axis that skips empty periods
ScanIntervals == {Interval("millisecond", 1), Interval("day", 1)}

\* The cells of the scanned axis: cell k (from 0) of the base interval
\* starts k intervals after Friday, 5 February 1971, 00:00
ScanOrigin == Days(400)

MaxCells == 5

ScanCell(interval, k) == add(ScanOrigin, interval.timeUnit, k * interval.count)

\* The time into its cell a data item has: noon, in a cell of a day
ScanOffset(interval) == IF interval.timeUnit = "day" THEN Hours(12) ELSE Zero

\* The data of the two series: series 1 has an item in each cell of a set
\* of cells, series 2 none or one in the last cell but one
ScanData == {d \in [Series -> SUBSET (0 .. MaxCells - 1)] : d[2] \in {{}, {MaxCells - 2}}}

\* The data items of a series with an item in each of the cells
RECURSIVE ScanItems(_, _, _)
ScanItems(interval, cells, k) ==
    IF k >= MaxCells THEN << >>
    ELSE (IF k \in cells THEN <<Add(ScanCell(interval, k), ScanOffset(interval))>> ELSE << >>)
             \o ScanItems(interval, cells, k + 1)

\* The ranges of the scanned axis: from cell 0 or cell 1 to the start of
\* the last cell but one, of the last cell, or the last data item; and the
\* axis without a range or without a greatest value
ScanRanges(interval) ==
    ({ScanCell(interval, 0), ScanCell(interval, 1)} \X
         {ScanCell(interval, MaxCells - 2), ScanCell(interval, MaxCells - 1),
          Add(ScanCell(interval, MaxCells - 1), ScanOffset(interval))})
    \cup {<<NotANumber, NotANumber>>, <<ScanCell(interval, 0), NotANumber>>}

\* The breaks the user adds: over cell 1, shown a hundredth as wide
UserBreaks(interval) ==
    {AxisBreak(ScanCell(interval, 1), Sub(ScanCell(interval, 2), One), 1)}

\* The breaks an axis has at most when the user adds one
MaxBreaks == 2

\* A time of day of Friday, 5 February 1971, and of the days after it
Clock(hours, minutes) == Add(Add(ScanOrigin, Hours(hours)), Ms(minutes * 60000))

\* The axes the grid is walked on, each with the base interval the user
\* set, its range and its breaks: four hours with two short breaks that
\* are fully collapsed; eight hours over midnight with two long breaks,
\* fully collapsed; the days around the first of March with a break half as wide
\* as it is; the years 1971 to 1974; four hours with a long break, fully
\* collapsed, and a break after it that was never closed
WalkAxes ==
    {[interval |-> Interval("minute", 15), min |-> Clock(9, 0), max |-> Clock(13, 0),
      axisBreaks |-> <<AxisBreak(Clock(10, 0), Clock(10, 30), 0),
                       AxisBreak(Clock(10, 45), Clock(11, 30), 0)>>],
     [interval |-> Interval("minute", 15), min |-> Clock(21, 0), max |-> Clock(29, 0),
      axisBreaks |-> <<AxisBreak(Clock(22, 10), Clock(24, 50), 0),
                       AxisBreak(Clock(26, 20), Clock(27, 50), 0)>>],
     [interval |-> Interval("day", 1), min |-> Days(421), max |-> Days(427),
      axisBreaks |-> <<AxisBreak(Days(423), Days(425), 50)>>],
     [interval |-> Interval("month", 1), min |-> Days(365), max |-> Days(4 * 365),
      axisBreaks |-> << >>],
     [interval |-> Interval("minute", 15), min |-> Clock(15, 0), max |-> Clock(19, 0),
      axisBreaks |-> <<AxisBreak(Clock(16, 10), Clock(17, 50), 0),
                       AxisBreak(Clock(18, 20), NotANumber, 0)>>]}

\* The grid counts of the walked axes
WalkGridCounts == {MaxGridCount, MaxGridCount + 1}

\* The axis that is zoomed: a hundred days without a break, or three days
\* from seven milliseconds past midnight
ZoomRanges == {<<AxisMin, AxisMax>>, <<Add(AxisMin, Ms(7)), Add(AxisMin, Days(3))>>}

\* The zooms of the user on it
ZoomSteps ==
    {<<Fraction(0, 1), Fraction(1, 1)>>, <<Fraction(1, 4), Fraction(3, 4)>>,
     <<Fraction(0, 1), Fraction(3, 4)>>, <<Fraction(2, 7), Fraction(1, 1)>>}

\* The times the data items of series 1 are taken from, in their order:
\* days 0 and 10 of the range, day 25 at 00:00 and at 12:00, days 76 and 99
ZoomTimes ==
    <<AxisMin, Add(AxisMin, Days(10)), Add(AxisMin, Days(25)),
      Add(Add(AxisMin, Days(25)), Hours(12)), Add(AxisMin, Days(76)), Add(AxisMin, Days(99))>>

\* The items among times from the k-th on that are in chosen
RECURSIVE Chosen(_, _, _)
Chosen(times, chosen, k) ==
    IF k > Len(times) THEN << >>
    ELSE (IF k \in chosen THEN <<times[k]>> ELSE << >>) \o Chosen(times, chosen, k + 1)

\* The items series 1 is loaded with: none, all, the two before the zoom,
\* the last, those up to noon of day 25, that of day 76, one before and
\* one after the zoom, and those from noon of day 25 on
ZoomChoices == {{}, 1 .. 6, {1, 2}, {6}, 1 .. 4, {5}, {2, 5}, {4, 5, 6}}

\* The data of the two series: series 2 has no item or one on day 50
ZoomData ==
    {[s \in Series |-> IF s = 1 THEN Chosen(ZoomTimes, chosen, 1) ELSE other] :
         chosen \in ZoomChoices, other \in {<< >>, <<Add(AxisMin, Days(50))>>}}
----------------------------------------------------------------------------
(* The state after construction.                                           *)

\* No range yet, no zoom, the properties at their defaults
InitGiven ==
    /\ min = NotANumber
    /\ max = NotANumber
    /\ start = Fraction(0, 1)
    /\ end = Fraction(1, 1)
    /\ skipEmptyPeriods = FALSE
    /\ markUnitChange = TRUE

InitGrid ==
    /\ _gridDate = NotANumber
    /\ _nextGridUnit = NoUnit
    /\ axisDataItems = << >>

InitRange ==
    /\ startIndex = [s \in Series |-> NoCount]
    /\ endIndex = [s \in Series |-> NoCount]

InitIndex ==
    /\ dataItemsByAxis = [s \in Series |-> {}]
    /\ seriesBaseInterval = [s \in Series |-> NoInterval]
    /\ InitRange

InitIntervals ==
    /\ gridIntervals = DefaultGridIntervals
    /\ _baseInterval = NoInterval
    /\ _baseIntervalReal = Interval("day", 1)
    /\ _gridInterval = NoInterval
    /\ zoom = NoZoom
    /\ InitGrid
    /\ lastCall = "constructor"

InitSeries ==
    /\ _minDifference = [s \in Series |-> NotANumber]
    /\ _prevSeriesTime = NotANumber
    /\ dataItems = [s \in Series |-> << >>]
    /\ InitIndex

Init ==
    /\ InitIntervals
    /\ InitGiven
    /\ InitSeries
    /\ axisBreaks = << >>
    /\ call = NoCall

\* ... with the arguments of a call of chooseInterval
InitChoose ==
    /\ InitIntervals
    /\ InitGiven
    /\ InitSeries
    /\ axisBreaks = << >>
    /\ call \in CallInputs

\* The data of a series after its data changed and two items, at 0 and at
\* gap, were processed (none for the gap MAX_VALUE)
Loaded(gap) == IF gap = MAX_VALUE THEN << >> ELSE <<Zero, gap>>

\* ... with series 1 loaded with any gap, after it the other series
LoadedSeries(gaps, others) ==
    /\ _minDifference \in {m \in [Series -> gaps \cup others \cup {MAX_VALUE}] :
                              /\ m[1] \in gaps \cup {MAX_VALUE}
                              /\ \A s \in Series \ {1} : m[s] \in others \cup {MAX_VALUE}}
    /\ dataItems = [s \in Series |-> Loaded(_minDifference[s])]
    /\ InitIndex
    /\ _prevSeriesTime =
           IF \A s \in Series : _minDifference[s] = MAX_VALUE THEN NotANumber
           ELSE _minDifference[CHOOSE s \in Series :
                                   /\ _minDifference[s] # MAX_VALUE
                                   /\ \A t \in Series : _minDifference[t] # MAX_VALUE => t <= s]

InitInfer ==
    /\ InitIntervals
    /\ InitGiven
    /\ LoadedSeries(Gaps, {Days(2)})
    /\ axisBreaks = << >>
    /\ call = NoCall

\* ... with the range of the axis known
InitAxis ==
    /\ InitIntervals
    /\ min = AxisMin
    /\ max = AxisMax
    /\ \E zoomed \in Zooms : start = zoomed[1] /\ end = zoomed[2]
    /\ skipEmptyPeriods = FALSE
    /\ markUnitChange = TRUE
    /\ LoadedSeries(LoadedGaps, {})
    /\ axisBreaks = AxisBreaks
    /\ call = NoCall


\* _minDifference of a series after its data changed and the items at times
\* were processed, the item before them being that at prevSeriesTime
RECURSIVE minDifferenceAfter(_, _, _)
minDifferenceAfter(times, prevSeriesTime, least) ==
    IF times = << >> THEN least
    ELSE minDifferenceAfter(Tail(times), Head(times),
             IF prevSeriesTime # NotANumber /\ Lt(prevSeriesTime, Head(times))
                /\ Gt(least, Sub(Head(times), prevSeriesTime))
             THEN Sub(Head(times), prevSeriesTime) ELSE least)

\* The axis after the user set the base interval interval, which the
\* series took over, and the data items were processed, series 1 first:
\* every series is indexed by the cells of that interval
ScannedSeries(interval, data) ==
    /\ _baseInterval = interval
    /\ dataItems = [s \in Series |-> ScanItems(interval, data[s], 0)]
    /\ dataItemsByAxis =
           [s \in Series |-> {postProcessSeriesDataItem(interval, dataItems[s][i]) :
                                  i \in 1 .. Len(dataItems[s])}]
    /\ seriesBaseInterval = [s \in Series |-> interval]
    /\ InitRange
    /\ _minDifference =
           [s \in Series |->
               minDifferenceAfter(dataItems[s],
                   IF s = 1 \/ dataItems[1] = << >> THEN NotANumber
                   ELSE dataItems[1][Len(dataItems[1])],
                   MAX_VALUE)]
    /\ _prevSeriesTime =
           IF dataItems[2] # << >> THEN dataItems[2][Len(dataItems[2])]
           ELSE IF dataItems[1] # << >> THEN dataItems[1][Len(dataItems[1])]
           ELSE NotANumber

\* ... with its range known or not, before any scan for empty cells
InitScan ==
    /\ gridIntervals = DefaultGridIntervals
    /\ _baseIntervalReal = Interval("day", 1)
    /\ _gridInterval = NoInterval
    /\ zoom = NoZoom
    /\ InitGrid
    /\ lastCall = "constructor"
    /\ \E interval \in ScanIntervals :
          /\ \E data \in ScanData : ScannedSeries(interval, data)
          /\ \E range \in ScanRanges(interval) : min = range[1] /\ max = range[2]
    /\ start = Fraction(0, 1)
    /\ end = Fraction(1, 1)
    /\ skipEmptyPeriods = FALSE
    /\ markUnitChange = TRUE
    /\ axisBreaks = << >>
    /\ call = NoCall

\* The axis the grid is walked on: the user set its base interval, its
\* range is known, its breaks are in place; no data is needed
InitWalk ==
    /\ gridIntervals = DefaultGridIntervals
    /\ _baseIntervalReal = Interval("day", 1)
    /\ _gridInterval = NoInterval
    /\ zoom = NoZoom
    /\ InitGrid
    /\ lastCall = "constructor"
    /\ InitSeries
    /\ \E axis \in WalkAxes :
          /\ _baseInterval = axis.interval
          /\ min = axis.min
          /\ max = axis.max
          /\ axisBreaks = axis.axisBreaks
    /\ start = Fraction(0, 1)
    /\ end = Fraction(1, 1)
    /\ skipEmptyPeriods = FALSE
    /\ markUnitChange = TRUE
    /\ call = NoCall

\* The axis that is zoomed: the user set the base interval {day, 1}, the
\* series are loaded and indexed by it, the range is known, there is no break
InitZoom ==
    /\ gridIntervals = DefaultGridIntervals
    /\ _baseInterval = Interval("day", 1)
    /\ _baseIntervalReal = Interval("day", 1)
    /\ _gridInterval = NoInterval
    /\ zoom = NoZoom
    /\ InitGrid
    /\ lastCall = "constructor"
    /\ dataItems \in ZoomData
    /\ dataItemsByAxis =
           [s \in Series |-> {postProcessSeriesDataItem(_baseInterval, dataItems[s][i]) :
                                  i \in 1 .. Len(dataItems[s])}]
    /\ seriesBaseInterval = [s \in Series |-> _baseInterval]
    /\ InitRange
    /\ _minDifference =
           [s \in Series |->
               minDifferenceAfter(dataItems[s],
                   IF s = 1 \/ dataItems[1] = << >> THEN NotANumber
                   ELSE dataItems[1][Len(dataItems[1])],
                   MAX_VALUE)]
    /\ _prevSeriesTime =
           IF dataItems[2] # << >> THEN dataItems[2][Len(dataItems[2])]
           ELSE IF dataItems[1] # << >> THEN dataItems[1][Len(dataItems[1])]
           ELSE NotANumber
    /\ \E range \in ZoomRanges : min = range[1] /\ max = range[2]
    /\ start = Fraction(0, 1)
    /\ end = Fraction(1, 1)
    /\ skipEmptyPeriods = FALSE
    /\ markUnitChange = TRUE
    /\ axisBreaks = << >>
    /\ call = NoCall

----------------------------------------------------------------------------
(* The handlers.                                                           *)

\* A direct call of chooseInterval runs
ChooseIntervalCall ==
    /\ call # NoCall
    /\ call.run = NoRun
    /\ call' = [call EXCEPT !.run = chooseIntervalRun(call.index, call.duration, call.gridCount, 1)]
    /\ lastCall' = "chooseInterval"
    /\ UNCHANGED <<gridIntervals, _baseInterval, _baseIntervalReal, _gridInterval, zoom,
                   axisBreaks, _minDifference, _prevSeriesTime, dataItems>>
    /\ UNCHANGED <<givenVars, indexVars, gridVars>>

\* seriesDataChangeUpdate(series): the data of the series changed
SeriesDataChangeUpdate(series) ==
    /\ _minDifference' = [_minDifference EXCEPT ![series] = MAX_VALUE]
    /\ dataItems' = [dataItems EXCEPT ![series] = << >>]
    /\ lastCall' = "seriesDataChangeUpdate"
    /\ UNCHANGED <<gridIntervals, _baseInterval, _baseIntervalReal, _gridInterval, zoom,
                   axisBreaks, _prevSeriesTime, call>>
    /\ UNCHANGED <<givenVars, indexVars, gridVars>>

\* processSeriesDataItem(dataItem): an item of the series with the date time
\* and the open date openTime (NotANumber when it has none); it is indexed
\* once the series has an interval, or the axis one set by the user
ProcessSeriesDataItem(series, time, openTime) ==
    LET difference == IF Lt(time, openTime) THEN Sub(openTime, time) ELSE Sub(time, openTime)
        afterOpen == IF openTime # NotANumber /\ Gt(_minDifference[series], difference)
                     THEN difference ELSE _minDifference[series]
        positive == _prevSeriesTime # NotANumber /\ Lt(_prevSeriesTime, time)
        indexed == seriesBaseInterval[series] # NoInterval \/ _baseInterval # NoInterval
    IN  /\ _minDifference' =
               [_minDifference EXCEPT ![series] =
                   IF positive /\ Gt(afterOpen, Sub(time, _prevSeriesTime))
                   THEN Sub(time, _prevSeriesTime) ELSE afterOpen]
        /\ _prevSeriesTime' = time
        /\ dataItems' = [dataItems EXCEPT ![series] = Append(@, time)]
        /\ seriesBaseInterval' =
               IF seriesBaseInterval[series] = NoInterval /\ _baseInterval # NoInterval
               THEN [seriesBaseInterval EXCEPT ![series] = _baseInterval]
               ELSE seriesBaseInterval
        /\ dataItemsByAxis' =
               IF indexed
               THEN [dataItemsByAxis EXCEPT ![series] =
                        @ \cup {postProcessSeriesDataItem(baseInterval, date) :
                                    date \in {time, openTime} \ {NotANumber}}]
               ELSE dataItemsByAxis
        /\ lastCall' = "processSeriesDataItem"
        /\ UNCHANGED <<gridIntervals, _baseInterval, _baseIntervalReal, _gridInterval, zoom,
                       axisBreaks, call>>
        /\ UNCHANGED <<givenVars, gridVars, rangeVars>>

\* updateAxisBySeries(): the assignments to the interval the selector
\* returned reach the catalog when that interval is a catalog object
UpdateAxisBySeries ==
    LET chosen == chooseInterval(0, minDifference, 1)
        inferred == promote(chosen, minDifference)
    IN  /\ _baseIntervalReal' = inferred
        /\ gridIntervals' =
               IF chosen.obj = 0 THEN gridIntervals
               ELSE [gridIntervals EXCEPT ![chosen.obj] = Spread(inferred)]
        /\ lastCall' = "updateAxisBySeries"
        /\ UNCHANGED <<_baseInterval, _gridInterval, zoom, axisBreaks, _minDifference,
                       _prevSeriesTime, dataItems, call>>
        /\ UNCHANGED <<givenVars, indexVars, gridVars>>

\* postProcessSeriesDataItems() with the base interval interval: the series
\* are indexed by it, then the cells without data are collapsed
PostProcess(interval) ==
    /\ dataItemsByAxis' = postProcessSeriesDataItems(interval)
    /\ seriesBaseInterval' =
           [series \in Series |->
               IF reindexed(interval, series) THEN interval ELSE seriesBaseInterval[series]]
    /\ axisBreaks' = addEmptyUnitsBreaks(interval, postProcessSeriesDataItems(interval))

\* postProcessSeriesDataItems()
PostProcessSeriesDataItems ==
    /\ PostProcess(baseInterval)
    /\ lastCall' = "postProcessSeriesDataItems"
    /\ UNCHANGED <<gridIntervals, _baseInterval, _baseIntervalReal, _gridInterval, zoom,
                   _minDifference, _prevSeriesTime, dataItems, call>>
    /\ UNCHANGED <<givenVars, gridVars, rangeVars>>

\* set baseInterval(timeInterval)
SetBaseInterval(timeInterval) ==
    LET interval == [timeInterval EXCEPT !.count = IF @ = NoCount THEN 1 ELSE @]
    IN  /\ IF _baseInterval # timeInterval
           THEN /\ _baseInterval' = interval
                /\ PostProcess(interval)
           ELSE UNCHANGED <<_baseInterval, axisBreaks, keyVars>>
        /\ lastCall' = "baseInterval"
        /\ UNCHANGED <<gridIntervals, _baseIntervalReal, _gridInterval, zoom,
                       _minDifference, _prevSeriesTime, dataItems, call>>
        /\ UNCHANGED <<givenVars, gridVars, rangeVars>>

\* set skipEmptyPeriods(value)
SetSkipEmptyPeriods(value) ==
    /\ skipEmptyPeriods' = value
    /\ lastCall' = "skipEmptyPeriods"
    /\ UNCHANGED <<gridIntervals, _baseInterval, _baseIntervalReal, _gridInterval, zoom,
                   axisBreaks, _minDifference, _prevSeriesTime, dataItems, call>>
    /\ UNCHANGED <<min, max, start, end, markUnitChange, indexVars, gridVars>>

\* set markUnitChange(value)
SetMarkUnitChange(value) ==
    /\ markUnitChange' = value
    /\ lastCall' = "markUnitChange"
    /\ UNCHANGED <<gridIntervals, _baseInterval, _baseIntervalReal, _gridInterval, zoom,
                   axisBreaks, _minDifference, _prevSeriesTime, dataItems, call>>
    /\ UNCHANGED <<min, max, start, end, skipEmptyPeriods, indexVars, gridVars>>

\* The user adds a break to the axis: axisBreaks.create(), then its dates
CreateAxisBreak(axisBreak) ==
    /\ axisBreaks' = Append(axisBreaks, axisBreak)
    /\ lastCall' = "axisBreaks.create"
    /\ UNCHANGED <<gridIntervals, _baseInterval, _baseIntervalReal, _gridInterval, zoom,
                   _minDifference, _prevSeriesTime, dataItems, call>>
    /\ UNCHANGED <<givenVars, indexVars, gridVars>>

\* The range of the axis is found anew, or lost with the data
SetMinMax(least, greatest) ==
    /\ min' = least
    /\ max' = greatest
    /\ lastCall' = "min, max"
    /\ UNCHANGED <<gridIntervals, _baseInterval, _baseIntervalReal, _gridInterval, zoom,
                   axisBreaks, _minDifference, _prevSeriesTime, dataItems, call>>
    /\ UNCHANGED <<start, end, skipEmptyPeriods, markUnitChange, indexVars, gridVars>>

\* calculateZoom(), were the grid interval chosen for the whole range, not
\* for the part of it the axis is zoomed to
calculateZoomOfRange(gridCount) ==
    LET difference == adjustDifference(min, max)
        gridInterval == zoomGridInterval(difference, gridCount)
    IN  /\ zoom' = [difference |-> difference, gridCount |-> gridCount]
        /\ _gridInterval' = gridInterval
        /\ _gridDate' = zoomGridDate(gridInterval)
        /\ _nextGridUnit' = getNextUnit(gridInterval.timeUnit)
        /\ startIndex' = [series \in Series |-> seriesStartIndex(series)]
        /\ endIndex' = [series \in Series |-> seriesEndIndex(series)]

\* calculateZoom(), for the grid count _gridCount: what it leaves behind,
\* on the axis and on its series, which all have it as their base axis
calculateZoom(gridCount) ==
    LET difference == adjustDifference(_minZoomed, _maxZoomed)
        gridInterval == zoomGridInterval(difference, gridCount)
    IN  /\ zoom' = [difference |-> difference, gridCount |-> gridCount]
        /\ _gridInterval' = gridInterval
        /\ _gridDate' = zoomGridDate(gridInterval)
        /\ _nextGridUnit' = getNextUnit(gridInterval.timeUnit)
        /\ startIndex' = [series \in Series |-> seriesStartIndex(series)]
        /\ endIndex' = [series \in Series |-> seriesEndIndex(series)]

\* calculateZoom()
CalculateZoom(gridCount) ==
    /\ calculateZoom(gridCount)
    /\ lastCall' = "calculateZoom"
    /\ UNCHANGED <<gridIntervals, _baseInterval, _baseIntervalReal, axisBreaks,
                   _minDifference, _prevSeriesTime, dataItems, call>>
    /\ UNCHANGED <<givenVars, keyVars, axisDataItems>>

\* fixAxisBreaks(): every break gets its own grid interval, for the grid
\* count breakGridCount[i] of break i, and its first grid date; for a break
\* without end the duration is not a number, no test of chooseInterval
\* holds and the search ends at the last entry of the catalog
FixAxisBreaks(breakGridCount) ==
    /\ axisBreaks' =
           [i \in 1 .. Len(axisBreaks) |->
               LET gridInterval ==
                       IF adjustedEndValue(axisBreaks[i]) = NotANumber
                       THEN Spread(getIndex(Len(gridIntervals) - 1))
                       ELSE chooseInterval(0, Sub(adjustedEndValue(axisBreaks[i]),
                                                  adjustedStartValue(axisBreaks[i])),
                                           breakGridCount[i])
                   gridDate == round(adjustedStartValue(axisBreaks[i]),
                                     gridInterval.timeUnit, gridInterval.count)
               IN  [axisBreaks[i] EXCEPT
                       !.gridInterval = gridInterval,
                       !.gridDate = IF Lt(axisBreaks[i].startDate, gridDate)
                                    THEN add(gridDate, gridInterval.timeUnit, gridInterval.count)
                                    ELSE gridDate]]
    /\ lastCall' = "fixAxisBreaks"
    /\ UNCHANGED <<gridIntervals, _baseInterval, _baseIntervalReal, _gridInterval, zoom,
                   _minDifference, _prevSeriesTime, dataItems, call>>
    /\ UNCHANGED <<givenVars, indexVars, gridVars>>

\* validateAxisElements(), for the grid count _gridCount and the breaks
\* roomy that are drawn wide enough for ticks of their own
ValidateAxisElements(gridCount, roomy) ==
    /\ IF max # NotANumber /\ min # NotANumber
       THEN /\ calculateZoom(gridCount)
            /\ axisDataItems' =
                   breaksItems(_nextGridUnit', roomy, 1,
                       regularItems(_gridInterval', _nextGridUnit', _gridDate', << >>))
       ELSE UNCHANGED <<zoom, _gridInterval, gridVars, rangeVars>>
    /\ lastCall' = "validateAxisElements"
    /\ UNCHANGED <<gridIntervals, _baseInterval, _baseIntervalReal, axisBreaks,
                   _minDifference, _prevSeriesTime, dataItems, call>>
    /\ UNCHANGED <<givenVars, keyVars>>

\* validateDataElement(dataItem), for the i-th data item of the axis
ValidateDataElement(i) ==
    /\ axisDataItems' = [axisDataItems EXCEPT ![i] = validateDataElement(@)]
    /\ lastCall' = "validateDataElement"
    /\ UNCHANGED <<gridIntervals, _baseInterval, _baseIntervalReal, _gridInterval, zoom,
                   axisBreaks, _minDifference, _prevSeriesTime, dataItems, call>>
    /\ UNCHANGED <<givenVars, indexVars, _gridDate, _nextGridUnit>>

\* The user zooms the axis: zoom({start, end})
Zoom(range) ==
    /\ start' = range[1]
    /\ end' = range[2]
    /\ lastCall' = "zoom"
    /\ UNCHANGED <<gridIntervals, _baseInterval, _baseIntervalReal, _gridInterval, zoom,
                   axisBreaks, _minDifference, _prevSeriesTime, dataItems, call>>
    /\ UNCHANGED <<min, max, skipEmptyPeriods, markUnitChange, indexVars, gridVars>>

----------------------------------------------------------------------------
(* The specifications.                                                     *)

\* Calls of the selector over the spans and grid counts
NextChoose == ChooseIntervalCall

SpecChoose == InitChoose /\ [][NextChoose]_vars

\* The series feed the axis: the data of a series changes, its items are
\* processed in chronological order, the axis infers its base interval, the
\* user sets one
Next ==
    \/ \E series \in Series : SeriesDataChangeUpdate(series)
    \/ \E series \in Series, time \in SeriesTimes :
          /\ Len(dataItems[series]) < MaxDataItems
          /\ \A i \in 1 .. Len(dataItems[series]) : Le(dataItems[series][i], time)
          /\ ProcessSeriesDataItem(series, time, NotANumber)
    \/ UpdateAxisBySeries
    \/ \E timeInterval \in UserIntervals : SetBaseInterval(timeInterval)

Spec == Init /\ [][Next]_vars

\* The inference over the minimum differences
NextInfer == UpdateAxisBySeries

SpecInfer == InitInfer /\ [][NextInfer]_vars

\* The axis with its data loaded: base interval, zoom and breaks
NextAxis ==
    \/ UpdateAxisBySeries
    \/ \E timeInterval \in UserIntervals : SetBaseInterval(timeInterval)
    \/ \E gridCount \in GridCounts : CalculateZoom(gridCount)
    \/ \E breakGridCount \in BreakGridCounts :
          FixAxisBreaks(breakGridCount)

SpecAxis == InitAxis /\ [][NextAxis]_vars


\* The axis that skips empty periods: the property is set, the series are
\* post-processed, the user adds a break
NextScan ==
    \/ \E value \in BOOLEAN : SetSkipEmptyPeriods(value)
    \/ PostProcessSeriesDataItems
    \/ \E axisBreak \in UserBreaks(baseInterval) :
          /\ Len(axisBreaks) < MaxBreaks
          /\ CreateAxisBreak(axisBreak)

SpecScan == InitScan /\ [][NextScan]_vars

\* The grid of the axis: the elements of the axis are validated, the breaks
\* get their grid intervals, the user turns the marking of unit changes on
\* and off, the range of the axis is lost
NextWalk ==
    \/ \E gridCount \in WalkGridCounts, roomy \in SUBSET (1 .. Len(axisBreaks)) :
          /\ \A i \in roomy : axisBreaks[i].gridInterval # NoInterval
          /\ ValidateAxisElements(gridCount, roomy)
    \/ \E i \in 1 .. Len(axisDataItems) : ValidateDataElement(i)
    \/ \E breakGridCount \in BreakGridCounts :
          /\ min # NotANumber
          /\ max # NotANumber
          /\ FixAxisBreaks(breakGridCount)
    \/ \E value \in BOOLEAN : SetMarkUnitChange(value)
    \/ \E least \in {min, NotANumber} :
          /\ max # NotANumber
          /\ SetMinMax(least, NotANumber)

SpecWalk == InitWalk /\ [][NextWalk]_vars

\* The zoom of the axis: the user zooms, the zoom is calculated
NextZoom ==
    \/ \E range \in ZoomSteps : Zoom(range)
    \/ \E gridCount \in GridCounts : CalculateZoom(gridCount)

SpecZoom == InitZoom /\ [][NextZoom]_vars

----------------------------------------------------------------------------
(* The interval selector: what a finished call returned.                   *)

LastIndex == Len(DefaultGridIntervals) - 1

Ran == call.run # NoRun

Returned == call.run.interval

SameInterval(a, b) == a.timeUnit = b.timeUnit /\ a.count = b.count

InCatalog(interval) ==
    \E j \in 0 .. LastIndex : SameInterval(interval, DefaultGridIntervals[j + 1])

\* The catalog position (from 0) of an interval of the catalog
Position(interval) ==
    CHOOSE j \in 0 .. LastIndex : SameInterval(interval, DefaultGridIntervals[j + 1])

\* ceil(duration / duration(entry j)) <= gridCount, for the call's arguments
Fits(j) == LeInt(Ceil(call.duration, EntryDuration(j)), call.gridCount)

Min(S) == CHOOSE x \in S : \A y \in S : x <= y

\* C1, as stated: from index 0 and for gridCount >= 1, the returned interval
\* keeps the number of steps across the span at or under gridCount, unless
\* it is the last catalog entry.
C1_BoundedAsStated ==
    (Ran /\ call.index = 0 /\ call.gridCount >= 1 /\ Position(Returned) # LastIndex)
        => Fits(Position(Returned))

\* C1, amended: from index 0 and for gridCount >= 1, the returned interval
\* keeps the number of steps across the span at or under gridCount, unless
\* it is the last catalog entry or the span is smaller than the duration of
\* the next coarser entry (the selector stepped back from that entry).
C1_Bounded ==
    (Ran /\ call.index = 0 /\ call.gridCount >= 1 /\ Position(Returned) # LastIndex)
        => \/ Fits(Position(Returned))
           \/ Lt(call.duration, EntryDuration(Position(Returned) + 1))

\* A call from index 0 that returned an entry with exactly gridCount >= 2
\* steps across a span that is not smaller than the next coarser entry.
C1_Witness ==
    /\ Ran /\ call.index = 0 /\ call.gridCount >= 2
    /\ Position(Returned) # LastIndex
    /\ Ceil(call.duration, EntryDuration(Position(Returned))) = Ms(call.gridCount)
    /\ ~Lt(call.duration, EntryDuration(Position(Returned) + 1))

\* C2, as stated: the returned interval is the coarsest entry at or above
\* index whose number of steps across duration does not exceed gridCount.
C2_CoarsestAsStated ==
    Ran => /\ Position(Returned) >= call.index
           /\ Fits(Position(Returned))
           /\ \A j \in call.index .. LastIndex : Fits(j) => j <= Position(Returned)

\* C2, amended: for gridCount >= 1 the selector finds the finest entry at or
\* above index, below the last, whose number of steps across duration does
\* not exceed gridCount; it returns that entry, or the entry before it when
\* duration is smaller than that entry's duration and the entry is not the
\* first of the catalog; it returns the last entry when there is none.
C2_Finest ==
    (Ran /\ call.gridCount >= 1)
        => LET fitting == {j \in call.index .. LastIndex - 1 : Fits(j)}
           IN  IF fitting = {} THEN Position(Returned) = LastIndex
               ELSE IF Lt(call.duration, EntryDuration(Min(fitting))) /\ Min(fitting) > 0
               THEN Position(Returned) = Min(fitting) - 1
               ELSE Position(Returned) = Min(fitting)

\* A call from a later index that passed over entries with too many steps
\* and returned the first one that fits, while a coarser one fits as well.
C2_Witness ==
    /\ Ran /\ call.index > 0 /\ call.gridCount >= 1
    /\ Position(Returned) > call.index /\ Position(Returned) < LastIndex - 1
    /\ Fits(Position(Returned)) /\ ~Fits(Position(Returned) - 1)
    /\ Fits(Position(Returned) + 1)
    /\ ~Lt(call.duration, EntryDuration(Position(Returned)))

\* The iterative reference of C3: scan from entry 0, stop at the first entry
\* that fits, return it, or the entry before it when the span is smaller
\* than its duration and it is not entry 0.
ReferenceAsStated ==
    LET i == Min({j \in 0 .. LastIndex : Fits(j)})
    IN  IF Lt(call.duration, EntryDuration(i)) /\ i > 0
        THEN DefaultGridIntervals[i] ELSE DefaultGridIntervals[i + 1]

\* The same, with the last entry returned as it is whenever the scan
\* reaches it
Reference ==
    LET fitting == {j \in 0 .. LastIndex - 1 : Fits(j)}
    IN  IF fitting = {} THEN DefaultGridIntervals[LastIndex + 1]
        ELSE IF Lt(call.duration, EntryDuration(Min(fitting))) /\ Min(fitting) > 0
        THEN DefaultGridIntervals[Min(fitting)] ELSE DefaultGridIntervals[Min(fitting) + 1]

\* C3, as stated: from index 0 and for gridCount >= 1 the selector returns
\* what the iterative reference returns (where some entry fits).
C3_ReferenceAsStated ==
    (Ran /\ call.index = 0 /\ call.gridCount >= 1 /\ \E j \in 0 .. LastIndex : Fits(j))
        => SameInterval(Returned, ReferenceAsStated)

\* C3, amended: from index 0 and for gridCount >= 1 the selector returns
\* what the iterative reference returns, except that the scan stops at the
\* last entry and returns that entry itself, whether it fits or not and also
\* when the span is smaller than its duration.  An hour with gridCount 6
\* gives {minute, 10}.
C3_Reference ==
    /\ (Ran /\ call.index = 0 /\ call.gridCount >= 1) => SameInterval(Returned, Reference)
    /\ (Ran /\ call.index = 0 /\ call.duration = Hours(1) /\ call.gridCount = HourGridCount)
           => SameInterval(Returned, Interval("minute", 10))

\* The call chooseInterval(0, 1 hour, 6) returned {minute, 10}.
C3_Witness ==
    /\ Ran /\ call.index = 0 /\ call.duration = Hours(1) /\ call.gridCount = HourGridCount
    /\ SameInterval(Returned, Interval("minute", 10))

\* C4, as stated: every call ends within catalog-length calls with a catalog
\* entry, and with the coarsest entry {year, 100000} when no entry from
\* index on fits or when it started at the last index.
C4_TerminatesAsStated ==
    Ran => /\ call.run.calls <= Len(DefaultGridIntervals)
           /\ InCatalog(Returned)
           /\ (call.index = LastIndex \/ \A j \in call.index .. LastIndex : ~Fits(j))
                 => SameInterval(Returned, Interval("year", 100000))

\* C4, amended: every call ends within catalog-length calls with a catalog
\* entry; it returns the coarsest entry {year, 100000} when it started at
\* the last index, and when no entry from index on fits and the span is not
\* smaller than the coarsest entry (which follows from the former for
\* gridCount >= 1, not for gridCount 0).
C4_Terminates ==
    Ran => /\ call.run.calls <= Len(DefaultGridIntervals) - call.index
           /\ InCatalog(Returned)
           /\ (\/ call.index = LastIndex
               \/ /\ \A j \in call.index .. LastIndex : ~Fits(j)
                  /\ ~Lt(call.duration, LastDuration))
                 => SameInterval(Returned, Interval("year", 100000))

\* A call from index 0 over a span of more than gridCount steps of the
\* coarsest entry: it made one call per entry and returned the coarsest.
C4_Witness ==
    /\ Ran /\ call.index = 0 /\ call.gridCount >= 1
    /\ ~Fits(LastIndex)
    /\ call.run.calls = Len(DefaultGridIntervals)
    /\ SameInterval(Returned, Interval("year", 100000))

----------------------------------------------------------------------------
(* The catalog, the zoom and the inferred base interval.                   *)

Duration(interval) == getDuration(interval.timeUnit, interval.count)

\* C5: after any sequence of calculateZoom, fixAxisBreaks and
\* updateAxisBySeries calls, each of them calling chooseInterval, every entry
\* of the catalog has its original unit and count, and the intervals the
\* axis and its breaks hold are copies, not catalog objects.
C5_CatalogUnchanged ==
    /\ Len(gridIntervals) = Len(DefaultGridIntervals)
    /\ \A i \in 1 .. Len(DefaultGridIntervals) :
          /\ gridIntervals[i].timeUnit = DefaultGridIntervals[i].timeUnit
          /\ gridIntervals[i].count = DefaultGridIntervals[i].count
    /\ _baseIntervalReal.obj = 0
    /\ _gridInterval.obj = 0
    /\ \A i \in 1 .. Len(axisBreaks) : axisBreaks[i].gridInterval.obj = 0

\* The zoom was calculated, the breaks were fixed, and updateAxisBySeries has
\* just overwritten the week the selector returned with a month
C5_Witness ==
    /\ lastCall = "updateAxisBySeries"
    /\ chooseInterval(0, minDifference, 1) = Interval("week", 1)
    /\ _baseIntervalReal = Interval("month", 1)
    /\ zoom # NoZoom
    /\ \A i \in 1 .. Len(axisBreaks) : axisBreaks[i].gridInterval # NoInterval

\* C6: after every calculateZoom the duration of the grid interval is at
\* least the duration of the base interval, and when the interval selected
\* for the zoomed span is shorter than the base interval, the grid interval
\* is a copy of the base interval.
C6_ZoomNotBelowBase ==
    lastCall = "calculateZoom" =>
        /\ ~ Lt(Duration(_gridInterval), baseDuration)
        /\ Lt(Duration(chooseInterval(0, zoom.difference, zoom.gridCount)), baseDuration)
              => _gridInterval = Spread(baseInterval)

\* An hour with room for 6 grid lines on an axis whose base interval is a
\* month: the 10 minutes selected are replaced by the month
C6_Witness ==
    /\ lastCall = "calculateZoom"
    /\ zoom = [difference |-> Hours(1), gridCount |-> HourGridCount]
    /\ chooseInterval(0, zoom.difference, zoom.gridCount) = Interval("minute", 10)
    /\ baseInterval = Interval("month", 1)
    /\ _gridInterval = Interval("month", 1)

\* C7: with no explicit base interval, when the minimum difference is at
\* least 27 days and the selector, called with gridCount 1, returns a week,
\* updateAxisBySeries infers {month, 1}; a minimum difference of 29.5 days
\* gives {month, 1}.
C7_ShortMonth ==
    (lastCall = "updateAxisBySeries" /\ _baseInterval = NoInterval) =>
        /\ (Le(Days(27), minDifference)
            /\ chooseInterval(0, minDifference, 1).timeUnit = "week")
              => baseInterval = Interval("month", 1)
        /\ minDifference = Sub(Days(30), Hours(12)) => baseInterval = Interval("month", 1)

\* The inference ran for a minimum difference of 29.5 days
C7_Witness ==
    /\ lastCall = "updateAxisBySeries"
    /\ _baseInterval = NoInterval
    /\ minDifference = Sub(Days(30), Hours(12))
    /\ chooseInterval(0, minDifference, 1).timeUnit = "week"
    /\ _baseIntervalReal = Interval("month", 1)

\* C8: for every minimum difference from 23 hours to under 24 hours,
\* updateAxisBySeries infers the base interval {day, 1}.
C8_ShortDay ==
    (lastCall = "updateAxisBySeries"
     /\ Le(Hours(23), minDifference) /\ Lt(minDifference, Hours(24)))
        => _baseIntervalReal = Interval("day", 1)

\* The inference ran for a minimum difference of 23 and a half hours, for
\* which the selector returns hours
C8_Witness ==
    /\ lastCall = "updateAxisBySeries"
    /\ minDifference = Add(Hours(23), Ms(1800000))
    /\ chooseInterval(0, minDifference, 1).timeUnit = "hour"
    /\ _baseIntervalReal = Interval("day", 1)

\* C9: once a base interval is set, the getter returns it after every
\* series data change, processed data item and updateAxisBySeries call,
\* which leave it as it is; the inferred interval is returned only while
\* none is set.
C9_ExplicitSticky ==
    /\ [](baseInterval = _baseIntervalReal => (_baseInterval = NoInterval
                                                \/ _baseInterval = _baseIntervalReal))
    /\ [][(_baseInterval # NoInterval /\ lastCall' # "baseInterval")
              => baseInterval' = _baseInterval]_vars

\* The user set {day} and the axis then inferred a month from its series:
\* the getter returns the day
C9_Witness ==
    /\ lastCall = "updateAxisBySeries"
    /\ _baseInterval = Interval("day", 1)
    /\ _baseIntervalReal = Interval("month", 1)
    /\ baseInterval = Interval("day", 1)

\* The positive differences between two adjacent timestamps of a series
AdjacentGaps(times) ==
    {Sub(times[i + 1], times[i]) : i \in {j \in 1 .. Len(times) - 1 : Lt(times[j], times[j + 1])}}

\* The least of them, MAX_VALUE when there is none
MinGap(times) ==
    IF AdjacentGaps(times) = {} THEN MAX_VALUE
    ELSE CHOOSE m \in AdjacentGaps(times) : \A n \in AdjacentGaps(times) : Le(m, n)

\* C10: the accumulator of a series whose data changed is the least positive
\* difference between two adjacent timestamps of that series processed since
\* the change, MAX_VALUE when it has no such pair.
C10_OwnGapsOnlyAsStated ==
    \A series \in Series :
        _minDifference[series] # NotANumber =>
            _minDifference[series] = MinGap(dataItems[series])

----------------------------------------------------------------------------
(* The break collapser.                                                    *)

\* The scan for empty cells ran last, over an axis that skips empty periods
\* and has a range
Scanned ==
    /\ lastCall = "postProcessSeriesDataItems"
    /\ skipEmptyPeriods
    /\ min # NotANumber
    /\ max # NotANumber

\* C11: after every run of addEmptyUnitsBreaks with skipEmptyPeriods
\* enabled, the breaks of the list are in ascending order of start and
\* pairwise disjoint: each break has an end, but for the last, and that end
\* is strictly before the start of the next break.
C11_BreaksAscendingDisjoint ==
    Scanned =>
        \A i \in 1 .. Len(axisBreaks) - 1 :
            /\ Lt(axisBreaks[i].startDate, axisBreaks[i + 1].startDate)
            /\ axisBreaks[i].endDate # NotANumber
            /\ Lt(axisBreaks[i].endDate, axisBreaks[i + 1].startDate)

\* Two breaks with one cell with data between them, on an axis of days
C11_Witness ==
    /\ Scanned
    /\ baseInterval = Interval("day", 1)
    /\ Len(axisBreaks) = 2
    /\ axisBreaks[1].startDate = ScanCell(baseInterval, 1)
    /\ axisBreaks[2].startDate = ScanCell(baseInterval, 3)

\* C12: every break that addEmptyUnitsBreaks closes has startDate strictly
\* less than endDate, for every base interval, {millisecond, 1} with a
\* single empty cell included.
C12_ClosedBreaksStartBeforeEndAsStated ==
    Scanned =>
        \A i \in 1 .. Len(axisBreaks) :
            axisBreaks[i].endDate # NotANumber =>
                Lt(axisBreaks[i].startDate, axisBreaks[i].endDate)

\* Day d is a Saturday or a Sunday
Weekend(d) == (d + 3) % 7 \in {5, 6}

\* The series have data on every weekday of the range and on no day of a
\* weekend
WeekdayData ==
    \A d \in DayOf(min) .. DayOf(max) :
        (\E series \in Series : Days(d) \in dataItemsByAxis[series]) <=> ~ Weekend(d)

\* The Saturdays whose weekend, up to the millisecond before Monday 00:00,
\* lies inside the range of the axis
Saturdays ==
    {d \in DayOf(min) .. DayOf(max) :
        /\ (d + 3) % 7 = 5
        /\ Le(min, Days(d))
        /\ Le(Sub(Days(d + 2), One), max)}

\* C13: with the base interval {day, 1}, skipEmptyPeriods enabled, data on
\* every weekday and none on the weekends, addEmptyUnitsBreaks leaves
\* exactly one break for each weekend inside the range of the axis, from
\* Saturday 00:00 to one millisecond before Monday 00:00, and no other.
C13_OneBreakPerWeekendAsStated ==
    (Scanned /\ baseInterval = Interval("day", 1) /\ WeekdayData) =>
        /\ Len(axisBreaks) = Cardinality(Saturdays)
        /\ {<<axisBreaks[i].startDate, axisBreaks[i].endDate>> : i \in 1 .. Len(axisBreaks)}
               = {<<Days(d), Sub(Days(d + 2), One)>> : d \in Saturdays}

\* C14: when the scan ends while a break is still open, that break is
\* closed by the end of the scan: after addEmptyUnitsBreaks every break of
\* the list has an end, and the end of a break over the last cells reaches
\* the greatest value of the axis.
C14_NoBreakLeftOpenAsStated ==
    Scanned =>
        \A i \in 1 .. Len(axisBreaks) :
            /\ axisBreaks[i].endDate # NotANumber
            /\ (i = Len(axisBreaks)
                /\ \A series \in Series : \A key \in dataItemsByAxis[series] :
                       Lt(key, axisBreaks[i].startDate))
                  => Le(max, axisBreaks[i].endDate)

\* Cell k of the scan: k base intervals after the start of the cell of min
Cell(k) == add(round(min, baseInterval.timeUnit, baseInterval.count),
               baseInterval.timeUnit, k * baseInterval.count)

\* The cells the scan tests: each cell after one that starts before
\* max - baseDuration
Tested == {k \in 1 .. MaxCells + 1 : Lt(Cell(k - 1), Sub(max, baseDuration))}

\* No series has data in cell k, as the series are indexed after the scan
Empty(k) == \A series \in Series : Cell(k) \notin dataItemsByAxis'[series]

\* The breaks one scan detects: one from each empty tested cell that
\* follows no empty tested cell, to a millisecond before the next tested
\* cell with data, without end when there is none
Detected ==
    {<<Cell(k),
       IF \E j \in Tested : j > k /\ ~ Empty(j)
       THEN Sub(Cell(CHOOSE j \in Tested :
                         /\ j > k /\ ~ Empty(j)
                         /\ \A i \in Tested : (i > k /\ ~ Empty(i)) => j <= i), One)
       ELSE NotANumber>> :
         k \in {c \in Tested : Empty(c) /\ (c - 1 \in Tested => ~ Empty(c - 1))}}

\* C15: each time the series are post-processed with skipEmptyPeriods
\* enabled and a numeric min and max, the list of breaks afterwards holds
\* exactly the breaks that scan detected, none of the breaks it held before,
\* those the user added included; with skipEmptyPeriods disabled, or min or
\* max not a number, the list is left as it was.
C15_ListReplacedOrUntouched ==
    [][lastCall' = "postProcessSeriesDataItems" =>
          IF skipEmptyPeriods /\ min # NotANumber /\ max # NotANumber
          THEN /\ {<<axisBreaks'[i].startDate, axisBreaks'[i].endDate>> :
                       i \in 1 .. Len(axisBreaks')} = Detected
               /\ Len(axisBreaks') = Cardinality(Detected)
          ELSE axisBreaks' = axisBreaks]_vars

\* A scan that left the one break it detected, over the cells 2 and 3 of
\* five cells of a day, of which the user's break over cell 1 is none
C15_Witness ==
    /\ Scanned
    /\ baseInterval = Interval("day", 1)
    /\ min = ScanCell(baseInterval, 0)
    /\ max = Add(ScanCell(baseInterval, MaxCells - 1), Hours(12))
    /\ Len(axisBreaks) = 1
    /\ axisBreaks[1].startDate = ScanCell(baseInterval, 2)
    /\ axisBreaks[1].endDate = Sub(ScanCell(baseInterval, MaxCells - 1), One)
    /\ \A axisBreak \in UserBreaks(baseInterval) : axisBreaks[1] # axisBreak

----------------------------------------------------------------------------
(* The grid-date walker.                                                   *)

\* The elements of the axis were validated last, on an axis with a range
Walked ==
    /\ lastCall = "validateAxisElements"
    /\ min # NotANumber
    /\ max # NotANumber

\* The regular ticks: the data items that belong to no break
RegularTicks == {i \in 1 .. Len(axisDataItems) : axisDataItems[i].axisBreak = 0}

\* The breaks are sorted by start, do not overlap, and have ends
BreaksInOrder ==
    /\ \A i \in 1 .. Len(axisBreaks) :
           /\ axisBreaks[i].startDate # NotANumber
           /\ axisBreaks[i].endDate # NotANumber
           /\ Le(axisBreaks[i].startDate, axisBreaks[i].endDate)
    /\ \A i \in 1 .. Len(axisBreaks) - 1 :
           Lt(axisBreaks[i].endDate, axisBreaks[i + 1].startDate)

\* C16: for sorted, non-overlapping breaks with ends, no grid date that
\* getGridDate returns, hence no regular tick of validateAxisElements, lies
\* strictly inside a break, also when the jump to the end of one break and
\* the rounding at the grid interval land in the break after it.
C16_NoTickInsideBreakAsStated ==
    (Walked /\ BreaksInOrder) =>
        \A i \in RegularTicks : \A b \in 1 .. Len(axisBreaks) :
            ~ (/\ Lt(axisBreaks[b].startDate, axisDataItems[i].date)
               /\ Lt(axisDataItems[i].date, axisBreaks[b].endDate))

\* The grid date before regular tick i: the date of the tick before it, the
\* grid date of the axis before the first
PrevGridDate(i) == IF i = 1 THEN _gridDate ELSE axisDataItems[i - 1].date

\* The duration between regular tick i and the grid date before it, rounded
\* to the unit, with the breaks taken off
DurationBreaksRemoved(i) ==
    adjustDifference(round(PrevGridDate(i), _gridInterval.timeUnit, 1), axisDataItems[i].date)

C18_WalkEnds ==
    (Walked /\ _gridInterval.count >= 1) =>
        /\ Cardinality(RegularTicks) < MaxTicks
        /\ \A i \in RegularTicks :
               /\ Lt(PrevGridDate(i), axisDataItems[i].date)
               /\ (i + 1 \in RegularTicks) => Le(axisDataItems[i].date, _maxZoomed)
               /\ (i + 1 \notin RegularTicks) => Lt(_maxZoomed, axisDataItems[i].date)

\* Four hours from 09:00 to 13:00: a tick at 13:00, the last at 14:00
C18_Witness ==
    /\ Walked
    /\ _maxZoomed = Clock(13, 0)
    /\ \E i \in RegularTicks :
          /\ i > 1
          /\ i + 1 \notin RegularTicks
          /\ axisDataItems[i - 1].date = Clock(13, 0)
          /\ axisDataItems[i].date = Clock(14, 0)

\* The period of the unit next coarser than unit that a date lies in: the
\* second of a millisecond, the minute of a second, the hour of a minute,
\* the day of an hour, the month of a day or a week, the year of a month
CoarserPeriod(unit, date) ==
    CASE unit = "millisecond" -> <<date[1], date[2] \div 1000>>
      [] unit = "second" -> <<date[1], date[2] \div 60000>>
      [] unit = "minute" -> <<date[1], 0>>
      [] unit = "hour" -> <<DayOf(date), 0>>
      [] unit \in {"day", "week"} -> <<DayOf(date) \div DaysOfYear, MonthOf(DayOf(date))>>
      [] unit = "month" -> <<DayOf(date) \div DaysOfYear, 0>>
      [] unit = "year" -> <<0, 0>>

\* C19: the label of a regular tick is in the period-change format exactly
\* when markUnitChange is enabled, the date of the tick differs from the
\* grid date before it at the unit next coarser than that of the grid
\* interval, and that unit is not the year; in every other case it is in
\* the regular format of the unit of the grid interval.
C19_PeriodChangeFormat ==
    Walked =>
        \A i \in RegularTicks :
            /\ axisDataItems[i].text.timeUnit = _gridInterval.timeUnit
            /\ axisDataItems[i].text.format =
                   IF /\ markUnitChange
                      /\ CoarserPeriod(_gridInterval.timeUnit, axisDataItems[i].date)
                             # CoarserPeriod(_gridInterval.timeUnit, PrevGridDate(i))
                      /\ _gridInterval.timeUnit # "year"
                   THEN PeriodChangeFormat
                   ELSE RegularFormat

\* Hours over midnight: the tick at 02:00 of Saturday, after that at 22:00
\* of Friday, is in the period-change format, the tick after it is not
C19_Witness ==
    /\ Walked
    /\ markUnitChange
    /\ _gridInterval = Interval("hour", 1)
    /\ \E i \in RegularTicks :
          /\ i > 1
          /\ i + 1 \in RegularTicks
          /\ axisDataItems[i - 1].date = Clock(22, 0)
          /\ axisDataItems[i].date = Clock(26, 0)
          /\ axisDataItems[i].text.format = PeriodChangeFormat
          /\ axisDataItems[i + 1].text.format = RegularFormat

\* C20: while min or max is not a number, validateAxisElements and
\* validateDataElement end without a tick added and leave the grid interval,
\* the grid date and every data item as they were.
C20_NoRangeNoWalk ==
    [][(/\ lastCall' \in {"validateAxisElements", "validateDataElement"}
        /\ (min = NotANumber \/ max = NotANumber))
          => /\ _gridInterval' = _gridInterval
             /\ _gridDate' = _gridDate
             /\ _nextGridUnit' = _nextGridUnit
             /\ axisDataItems' = axisDataItems]_vars

\* A validation run on an axis that has lost its max while it has ticks
\* of an earlier validation
C20_Witness ==
    /\ lastCall \in {"validateAxisElements", "validateDataElement"}
    /\ (min = NotANumber \/ max = NotANumber)
    /\ axisDataItems # << >>
    /\ _gridInterval # NoInterval


\* Cell k has no data: no series is indexed at its start
EmptyCell(k) == \A series \in Series : Cell(k) \notin dataItemsByAxis[series]

\* Break i covers the time date: it starts at or before it and, when it
\* has an end, ends at or after it
Covers(i, date) ==
    /\ Le(axisBreaks[i].startDate, date)
    /\ (axisBreaks[i].endDate = NotANumber \/ Le(date, axisBreaks[i].endDate))

\* C25: after addEmptyUnitsBreaks every cell of the base interval from the
\* cell of the rounded min up to max in which no series has data, the first
\* cell and the last before max included, lies inside a break.
C25_EveryEmptyCellInBreakAsStated ==
    Scanned =>
        \A k \in 0 .. MaxCells :
            (Lt(Cell(k), max) /\ EmptyCell(k)) => \E i \in 1 .. Len(axisBreaks) : Covers(i, Cell(k))

\* The starts of the cells of the data items of the series: their times
\* rounded to the base interval
RoundedTimes ==
    UNION {{postProcessSeriesDataItem(baseInterval, dataItems[series][i]) :
                i \in 1 .. Len(dataItems[series])} : series \in Series}

\* The time date lies in the range of break i: from its start to its end,
\* or up to max when the break has no end
Hides(i, date) ==
    /\ Le(axisBreaks[i].startDate, date)
    /\ IF axisBreaks[i].endDate = NotANumber THEN Lt(date, max)
       ELSE Le(date, axisBreaks[i].endDate)

----------------------------------------------------------------------------
(* The grid dates of the breaks.                                           *)

\* The adjusted start of break i rounded at the grid interval of the break
RoundedStart(i) ==
    round(adjustedStartValue(axisBreaks[i]),
          axisBreaks[i].gridInterval.timeUnit, axisBreaks[i].gridInterval.count)

\* C28: after fixAxisBreaks the first grid date of each break is its
\* adjusted start rounded at the grid interval of the break, advanced by
\* one such interval exactly when the rounded date lies before the start of
\* the break, so that it is never before the start of the break.
C28_BreakGridDateNotBeforeStartAsStated ==
    (lastCall = "fixAxisBreaks" /\ min # NotANumber /\ max # NotANumber) =>
        \A i \in 1 .. Len(axisBreaks) :
            /\ axisBreaks[i].gridDate =
                   IF Lt(RoundedStart(i), axisBreaks[i].startDate)
                   THEN add(RoundedStart(i), axisBreaks[i].gridInterval.timeUnit,
                            axisBreaks[i].gridInterval.count)
                   ELSE RoundedStart(i)
            /\ Le(axisBreaks[i].startDate, axisBreaks[i].gridDate)

----------------------------------------------------------------------------
(* The step correction of the grid dates.                                  *)

\* The dates getGridDate is asked about: the grid dates before the regular
\* ticks, and the starts and ends of the breaks
StepDates ==
    {PrevGridDate(i) : i \in RegularTicks}
        \cup {axisBreaks[i].startDate : i \in 1 .. Len(axisBreaks)}
        \cup ({axisBreaks[i].endDate : i \in 1 .. Len(axisBreaks)} \ {NotANumber})

\* The range of the axis in grid intervals, rounded up
SpanInIntervals == Ceil(Sub(max, min), getDuration(_gridInterval.timeUnit, _gridInterval.count))

----------------------------------------------------------------------------
(* The interval selector over the spans.                                   *)

\* C30: chooseInterval is monotone in the span: for a grid count of at
\* least 1 and spans D1 <= D2, the catalog position of
\* chooseInterval(0, D1, gridCount) is not greater than that of
\* chooseInterval(0, D2, gridCount).
C30_MonotoneInSpan ==
    (Ran /\ call.index = 0 /\ call.gridCount >= 1) =>
        \A span \in Spans :
            Le(span, call.duration) =>
                Position(chooseInterval(0, span, call.gridCount)) <= Position(Returned)

\* A span under the duration of the entry after the one returned, from
\* which the selector stepped back, with a smaller span that gives the same
\* entry and one that gives a finer entry
C30_Witness ==
    /\ Ran /\ call.index = 0 /\ call.gridCount >= 2
    /\ Position(Returned) \in 1 .. LastIndex - 1
    /\ ~ Fits(Position(Returned))
    /\ \E span \in Spans :
          /\ Lt(span, call.duration)
          /\ Position(chooseInterval(0, span, call.gridCount)) = Position(Returned)
    /\ \E span \in Spans :
          /\ Lt(span, call.duration)
          /\ Position(chooseInterval(0, span, call.gridCount)) < Position(Returned)

----------------------------------------------------------------------------
(* The inference of the base interval, months.                             *)

Inferred == lastCall = "updateAxisBySeries"

\* The minimum difference is at least from days and under to days
GapWithin(from, to) == Le(Days(from), minDifference) /\ Lt(minDifference, Days(to))

\* C26: when the unit selected for the base interval is month,
\* updateAxisBySeries raises the count from 1 to 2 for a minimum difference
\* of at least 58 days, from 2 to 3 for at least 87 days and from 5 to 6 for
\* at least 174 days, in that order; with the default catalog a minimum
\* difference from 58 to under 60 days gives {month, 2}, from 87 to under
\* 90 days {month, 3}, and from 174 to under 180 days {month, 6}.
C26_MonthCountsAsStated ==
    Inferred =>
        /\ GapWithin(58, 60) => _baseIntervalReal = Interval("month", 2)
        /\ GapWithin(87, 90) => _baseIntervalReal = Interval("month", 3)
        /\ GapWithin(174, 180) => _baseIntervalReal = Interval("month", 6)

----------------------------------------------------------------------------
(* The zoom and the ranges of the series.                                  *)

\* calculateZoom ran last: the zoom it worked on is that of the axis
Calculated == lastCall = "calculateZoom"

\* The cell of the zoomed minimum, and the cell after that of the zoomed
\* maximum: the keys calculateZoom looks up
MinCell == round(_minZoomed, baseInterval.timeUnit, baseInterval.count)

MaxCell == add(round(_maxZoomed, baseInterval.timeUnit, baseInterval.count),
               baseInterval.timeUnit, baseInterval.count)

\* The series has a data item in the cell that starts at date
HasItemIn(series, date) ==
    \E i \in 1 .. Len(dataItems[series]) :
        round(dataItems[series][i], baseInterval.timeUnit, baseInterval.count) = date

\* The number of data items of the series before date
ItemsBefore(series, date) ==
    Cardinality({i \in 1 .. Len(dataItems[series]) : Lt(dataItems[series][i], date)})

\* C24, as stated: when no data item of a series matches the zoomed minimum
\* (maximum), calculateZoom sets startIndex to 0 (endIndex to the length of
\* the series), for every zoom, start # 0 and end # 1 included; an axis
\* that is not zoomed always gives the range 0 .. length.
C24_DefaultRangeAsStated ==
    Calculated =>
        \A series \in Series :
            /\ ~ HasItemIn(series, MinCell) => startIndex[series] = 0
            /\ ~ HasItemIn(series, MaxCell) => endIndex[series] = Len(dataItems[series])
            /\ (start[1] = 0 /\ end[1] = end[2])
                  => /\ startIndex[series] = 0
                     /\ endIndex[series] = Len(dataItems[series])

\* C24 (amended): an axis that is not zoomed gives every series the range
\* 0 .. length.  With start # 0 and no data item in the cell of the zoomed
\* minimum, startIndex is the index of the closest data item before the
\* zoomed minimum, and 0 only when there is none before it; with end # 1
\* and no data item in the cell after that of the zoomed maximum, endIndex
\* is one more than the index of the closest data item at or after the last
\* millisecond before that cell, and the length of the series when there
\* is none.
C24_ClosestRange ==
    Calculated =>
        \A series \in Series :
            /\ start[1] = 0 => startIndex[series] = 0
            /\ end[1] = end[2] => endIndex[series] = Len(dataItems[series])
            /\ (start[1] # 0 /\ ~ HasItemIn(series, MinCell))
                  => startIndex[series] =
                         IF ItemsBefore(series, _minZoomed) = 0 THEN 0
                         ELSE ItemsBefore(series, _minZoomed) - 1
            /\ (end[1] # end[2] /\ ~ HasItemIn(series, MaxCell))
                  => endIndex[series] =
                         IF ItemsBefore(series, Sub(MaxCell, One)) = Len(dataItems[series])
                         THEN Len(dataItems[series])
                         ELSE ItemsBefore(series, Sub(MaxCell, One)) + 1

\* The middle half of a hundred days, with data on days 0 and 10 alone:
\* startIndex is 1, the item of day 10, and endIndex is 2, the length
C24_Witness ==
    /\ Calculated
    /\ start = Fraction(1, 4) /\ end = Fraction(3, 4)
    /\ max = AxisMax
    /\ Len(dataItems[1]) = 2
    /\ ~ HasItemIn(1, MinCell) /\ ~ HasItemIn(1, MaxCell)
    /\ startIndex[1] = 1
    /\ endIndex[1] = 2


----------------------------------------------------------------------------
(* Zooming in on a hundred days                                            *)

\* calculateZoom ran on the middle half of the hundred days
MiddleHalf ==
    /\ Calculated
    /\ min = AxisMin /\ max = AxisMax
    /\ start = Fraction(1, 4) /\ end = Fraction(3, 4)

\* The grid interval calculateZoom chooses, for the grid count it last ran
\* with, when the axis shows all of its hundred days
FullSpanInterval == zoomGridInterval(Sub(AxisMax, AxisMin), zoom.gridCount)

----------------------------------------------------------------------------
(* From a position to a date and back                                      *)

\* The positions looked at, besides those the axis is zoomed to
ProbePositions ==
    {Fraction(0, 1), Fraction(1, 4), Fraction(2, 7), Fraction(1, 3), Fraction(1, 2),
     Fraction(5, 7), Fraction(3, 4), Fraction(99, 100), Fraction(1, 1)}

\* The position of the date at the position p is p, or before it by less
\* than the width of a millisecond: back <= p < back + 1 / _difference
BackWithinMillisecond(p) ==
    LET back == dateToPosition(positionToDate(p))
    IN  /\ back.sign = 1
        /\ back.den = _difference
        /\ Le(Times(back.num, p[2]), Times(_difference, p[1]))
        /\ Lt(Times(_difference, p[1]), Times(Add(back.num, One), p[2]))

\* C22: on an axis without breaks and with min < max, for every position p
\* in [0, 1], dateToPosition(positionToDate(p)), and so
\* valueToPosition(positionToValue(p)), is p up to the width one millisecond
\* has on the axis.
C22_RoundTrip ==
    (axisBreaks = << >> /\ min # NotANumber /\ max # NotANumber /\ Lt(min, max)) =>
        \A p \in ProbePositions \cup {start, end} : BackWithinMillisecond(p)

\* The axis is zoomed to start = 2/7 of three days less 7 ms: the zoomed
\* minimum is cut to the millisecond, and its position is below 2/7
C22_Witness ==
    /\ axisBreaks = << >>
    /\ lastCall = "zoom"
    /\ start = Fraction(2, 7)
    /\ Sub(max, min) = Sub(Days(3), Ms(7))
    /\ positionToDate(start) = _minZoomed
    /\ Lt(Times(dateToPosition(_minZoomed).num, 7), Times(_difference, 2))
    /\ BackWithinMillisecond(start)

----------------------------------------------------------------------------
(* The order of the positions                                              *)

\* a <= b, for two positions of the same axis
PositionLe(a, b) ==
    CASE a.sign = 1 /\ b.sign = 1 -> Le(a.num, b.num)
      [] a.sign = 0 - 1 /\ b.sign = 0 - 1 -> Le(b.num, a.num)
      [] a.sign = 0 - 1 /\ b.sign = 1 -> TRUE
      [] a.sign = 1 /\ b.sign = 0 - 1 -> a.num = Zero /\ b.num = Zero

\* The times looked at: an hour before the range and after it, its ends,
\* the ends of every break, the millisecond before and after each, the
\* middle of the break, and the dates of the ticks
ProbeTimes ==
    {Sub(min, Hours(1)), min, max, Add(max, Hours(1))}
        \cup UNION {{Sub(axisBreaks[i].startDate, One), axisBreaks[i].startDate,
                     Add(axisBreaks[i].startDate, One),
                     Add(axisBreaks[i].startDate,
                         DivModSmall(Sub(axisBreaks[i].endDate, axisBreaks[i].startDate),
                                     Ms(2)).q),
                     Sub(axisBreaks[i].endDate, One), axisBreaks[i].endDate,
                     Add(axisBreaks[i].endDate, One)} : i \in 1 .. Len(axisBreaks)}
        \cup {axisDataItems[i].date : i \in 1 .. Len(axisDataItems)}

\* C21: with breaks that are sorted and do not overlap, each with a
\* breakSize from 0 to 1, valueToPosition does not decrease: for times
\* t1 < t2, valueToPosition(t1) <= valueToPosition(t2), and so for
\* dateToPosition and for the positions the ticks were given.
C21_Monotone ==
    (BreaksInOrder /\ min # NotANumber /\ max # NotANumber) =>
        /\ \A t1, t2 \in ProbeTimes :
               Lt(t1, t2) => /\ PositionLe(valueToPosition(t1), valueToPosition(t2))
                             /\ PositionLe(dateToPosition(t1), dateToPosition(t2))
        /\ \A i, j \in 1 .. Len(axisDataItems) :
               Lt(axisDataItems[i].date, axisDataItems[j].date)
                  => PositionLe(axisDataItems[i].position, axisDataItems[j].position)

\* A break of two days shown at half its width, and ticks on it: the middle
\* of the break lies between its ends, and a tick before the break lies
\* before a tick after it
C21_Witness ==
    /\ BreaksInOrder
    /\ Len(axisBreaks) = 1
    /\ axisBreaks[1].breakSize = 50
    /\ LET startDate == axisBreaks[1].startDate
           endDate == axisBreaks[1].endDate
           middle == Add(startDate, Days(1))
       IN  /\ middle \in ProbeTimes
           /\ Lt(valueToPosition(startDate).num, valueToPosition(middle).num)
           /\ Lt(valueToPosition(middle).num, valueToPosition(endDate).num)
           /\ \E i, j \in 1 .. Len(axisDataItems) :
                  /\ Lt(axisDataItems[i].date, startDate)
                  /\ Lt(endDate, axisDataItems[j].date)
                  /\ Lt(axisDataItems[i].position.num, axisDataItems[j].position.num)

============================================================================
